---- MODULE Spec2Model ----
(***************************************************************************)
(* TipALPH: the custodial wallet and transaction orchestration layer       *)
(* (AlphClient, services/alephium.ts), the error classifier (error.ts) and *)
(* the chat handlers that call them (telegram.ts).                         *)
(*                                                                         *)
(* Tasks are the cooperative asynchronous calls of the single process.     *)
(* Every await of the source is a suspension point, so an operation is a   *)
(* chain of actions, one per awaited persistence or gateway call.          *)
(***************************************************************************)
EXTENDS Integers, Sequences, FiniteSets, TLC

\* ------------------------------------------------------------------ bounds
NumTasks == 3
MaxSweepTxs == 2
MaxStoreUsers == 12
MaxAmount == 30
Tasks == 1..NumTasks
TelegramIds == {101, 102}

\* ------------------------------------------------------------------ values
\* An address: whether its text is in the base58 alphabet, the length of the
\* decoded payload, and the key it stands for.
NoAddress == [alphabetOk |-> FALSE, payloadLen |-> 0, key |-> 0]

\* deriveHDWalletPrivateKey(mnemonic, 'default', index): one wallet per index.
WalletAddressOf(index) == [alphabetOk |-> TRUE, payloadLen |-> 32, key |-> index]

\* new User(telegramId, username): no id and no address before it is saved.
NewUser(tid) == [id |-> 0, telegramId |-> tid, address |-> NoAddress]

\* Mutant: every user is given the same derivation index.
deriveUserIterator_Shared(user) == 1

deriveUserIterator(user) == user.id

\* PrivateKeyWallet: its address and the group (shard) the address falls in.
NoWallet == [address |-> NoAddress, group |-> 0]
getUserWallet(user) ==
  [address |-> WalletAddressOf(deriveUserIterator(user)),
   group |-> deriveUserIterator(user) % 2]
deriveUserAddress(user) == getUserWallet(user).address

\* isValidAddress(address): base58 text that decodes to a full payload.
isValidAddress(address) == address.alphabetOk /\ address.payloadLen >= 32

\* Tokens of the registry; the native asset carries the ALPH symbol.
ALPH == [id |-> "0000", symbol |-> "ALPH", decimals |-> 3]
TOK == [id |-> "tok1", symbol |-> "TOK", decimals |-> 0]
TOK2 == [id |-> "tok2", symbol |-> "TK2", decimals |-> 0]
isALPH(token) == token.symbol = "ALPH"
TokenAmount(amount, token) == [token |-> token, amount |-> amount]
NoTokenAmount == TokenAmount(0, ALPH)

\* 10^decimals smallest units make one unit of a token.
RECURSIVE Pow10(_)
Pow10(n) == IF n = 0 THEN 1 ELSE 10 * Pow10(n - 1)

\* TokenAmount.amountAsNumber(): the amount in whole units, as a fraction.
amountAsNumber(ta) == [num |-> ta.amount, den |-> Pow10(ta.token.decimals)]
NumberLeq(x, n) == x.num <= n * x.den
NumberLt(x, n) == x.num < n * x.den

\* TokenAmount.substractAndGetPercentage(p): the floored fee, taken off the amount.
PercentageOf(ta, p) == TokenAmount((ta.amount * p) \div 100, ta.token)
AfterPercentage(ta, p) == TokenAmount(ta.amount - PercentageOf(ta, p).amount, ta.token)

\* DUST_AMOUNT: 0.001 ALPH, in smallest units.
DUST_AMOUNT == 1

\* Mutant: a token output is given no native amount.
destination_NoDust(address, ta) ==
  [address |-> address,
   attoAlphAmount |-> IF isALPH(ta.token) THEN ta.amount ELSE 0,
   tokens |-> IF isALPH(ta.token) THEN <<>> ELSE <<[id |-> ta.token.id, amount |-> ta.amount]>>]

\* One output of a transfer: the native amount when the token is ALPH, else
\* the dust amount plus the token.
destination(address, ta) ==
  [address |-> address,
   attoAlphAmount |-> IF isALPH(ta.token) THEN ta.amount ELSE DUST_AMOUNT,
   tokens |-> IF isALPH(ta.token) THEN <<>> ELSE <<[id |-> ta.token.id, amount |-> ta.amount]>>]

\* ------------------------------------------------------------------ errors
\* A raw failure of a collaborator: any thrown value, an Error or not. Its
\* message is named by the documented shape its text has.
NoRaw == [instanceOfError |-> FALSE, message |-> "none"]
RawShapes ==
  {"fetch failed", "IOFailure", "AmountOverflow", "NotEnoughFunds",
   "NotEnoughBalanceForFee", "NotEnoughApprovedBalance",
   "NotEnoughALPHForTransactionOutput", "NotEnoughALPHForALPHAndTokenChangeOutput",
   "NotEnoughALPHForTokenChangeOutput", "unrecognised"}
\* Messages whose text has two of the shapes at once.
OverlappingMessages ==
  {"AmountOverflow NotEnoughBalanceForFee",
   "NotEnoughBalanceForFee NotEnoughALPHForTransactionOutput"}

\* The shapes the text of a message has.
ShapesOf(message) ==
  CASE message = "AmountOverflow NotEnoughBalanceForFee"
         -> {"AmountOverflow", "NotEnoughBalanceForFee"}
    [] message = "NotEnoughBalanceForFee NotEnoughALPHForTransactionOutput"
         -> {"NotEnoughBalanceForFee", "NotEnoughALPHForTransactionOutput"}
    [] OTHER -> {message}

RawErrors ==
  {[instanceOfError |-> TRUE, message |-> m] : m \in RawShapes \cup OverlappingMessages}
    \cup {[instanceOfError |-> FALSE, message |-> "unrecognised"]}

\* The TypeError of reading .length of null.
NullLengthTypeError == [instanceOfError |-> TRUE, message |-> "reading length of null"]

\* An error value: a domain error kind wrapping its cause, or ("raw") the
\* raw value itself.
NoError == [kind |-> "none", cause |-> NoRaw]
DomainError(kind, cause) == [kind |-> kind, cause |-> cause]
RawError(raw) == [kind |-> "raw", cause |-> raw]
USER_ALREADY_REGISTERED == [kind |-> "user already registered", cause |-> NoRaw]
InvalidAddressError == DomainError("InvalidAddressError", NoRaw)
TooSmallALPHWithdrawalError == DomainError("TooSmallALPHWithdrawalError", NoRaw)

alphErrorIsNetworkError(value) ==
  value.instanceOfError /\ value.message = "fetch failed"

\* message.match(notEnoughFundsRegex): null, or the match and its two groups.
matchNotEnoughFunds(message) ==
  IF message = "NotEnoughFunds"
    THEN [isNull |-> FALSE, groups |-> <<message, "got", "expected">>]
    ELSE [isNull |-> TRUE, groups |-> <<>>]

\* alphErrorIsNotEnoughFundsError: false for a non-Error, else
\* 3 === err.message.match(regex).length, which throws when the match is null.
alphErrorIsNotEnoughFundsError(err) ==
  IF ~err.instanceOfError THEN "false"
  ELSE LET numbers == matchNotEnoughFunds(err.message) IN
       IF numbers.isNull THEN "throws"
       ELSE IF Len(numbers.groups) = 3 THEN "true" ELSE "false"

\* The classifier's other predicates: each recognises its documented shape.
alphErrorIsIOFailureError(err) == "IOFailure" \in ShapesOf(err.message)
alphErrorIsAlphAmountOverflowError(err) == "AmountOverflow" \in ShapesOf(err.message)
alphErrorIsNotEnoughBalanceForFeeError(err) == "NotEnoughBalanceForFee" \in ShapesOf(err.message)
alphErrorIsNotEnoughApprovedBalanceForAddress(err) ==
  "NotEnoughApprovedBalance" \in ShapesOf(err.message)
alphErrorIsNotEnoughALPHForTransactionOutputError(err) ==
  "NotEnoughALPHForTransactionOutput" \in ShapesOf(err.message)
alphErrorIsNotEnoughALPHForALPHAndTokenChangeOutputError(err) ==
  "NotEnoughALPHForALPHAndTokenChangeOutput" \in ShapesOf(err.message)

\* adaptError(err), as the value `.catch(err => Promise.reject(adaptError(err)))`
\* rejects with: the classified error, err itself, or what a predicate threw.
adaptError(err) ==
  IF alphErrorIsNetworkError(err) THEN DomainError("NetworkError", err)
  ELSE IF alphErrorIsIOFailureError(err) THEN DomainError("AlphApiIOError", err)
  ELSE IF alphErrorIsAlphAmountOverflowError(err) THEN DomainError("AlphAmountOverflowError", err)
  ELSE IF alphErrorIsNotEnoughFundsError(err) = "throws" THEN RawError(NullLengthTypeError)
  ELSE IF alphErrorIsNotEnoughFundsError(err) = "true" THEN DomainError("NotEnoughFundsError", err)
  ELSE IF alphErrorIsNotEnoughBalanceForFeeError(err)
    THEN DomainError("NotEnoughBalanceForFeeError", err)
  ELSE IF alphErrorIsNotEnoughApprovedBalanceForAddress(err)
    THEN DomainError("NotEnoughApprovedBalanceForAddressError", err)
  ELSE IF alphErrorIsNotEnoughALPHForTransactionOutputError(err)
    THEN DomainError("NotEnoughALPHForTransactionOutputError", err)
  ELSE IF alphErrorIsNotEnoughALPHForALPHAndTokenChangeOutputError(err)
    THEN DomainError("NotEnoughALPHForALPHAndTokenChangeOutputError", err)
  ELSE RawError(err)

\* getUserBalance's catch: NetworkError, else a GeneralError around the cause.
adaptBalanceError(err) ==
  IF alphErrorIsNetworkError(err) THEN DomainError("NetworkError", err)
  ELSE DomainError("GeneralError", err)

\* ------------------------------------------------------------------ tasks
Pending ==
  [status |-> "pending", error |-> NoError, user |-> NewUser(0), txId |-> 0,
   txIds |-> <<>>, balance |-> <<>>]
Resolved(user, txId) == [Pending EXCEPT !.status = "resolved", !.user = user, !.txId = txId]
ResolvedTxIds(ids) == [Pending EXCEPT !.status = "resolved", !.txIds = ids]
ResolvedBalance(b) == [Pending EXCEPT !.status = "resolved", !.balance = b]
Rejected(err) == [Pending EXCEPT !.status = "rejected", !.error = err]

NoCall ==
  [op |-> "none", user |-> NewUser(0), absentAtCall |-> FALSE,
   receiver |-> NewUser(0), requested |-> NoTokenAmount, tokenAmount |-> NoTokenAmount,
   dest |-> NoAddress, wallet |-> NoWallet, destinations |-> <<>>, newTx |-> 0,
   userBalance |-> <<>>, unsignedTxs |-> 0, raw |-> NoRaw, failedAt |-> "none",
   detached |-> FALSE, hasStatus |-> FALSE, addresses |-> <<>>, tokenFilter |-> "",
   nodeBalance |-> [balance |-> 0, tokenBalances |-> <<>>, utxoNum |-> 0],
   ledger |-> <<>>, totalNbrUsers |-> 0, userBuffer |-> 0, i |-> 0,
   totalTokenAmount |-> <<>>, currentUserSet |-> <<>>,
   command |-> "none", update |-> [command |-> "none", from |-> 0, replyTo |-> 0,
                                   previouslyRegistered |-> FALSE, goodBye |-> "none"],
   fetched |-> {}, ended |-> ""]

\* operatorConfig and EnvConfig, as read by the orchestrator.
DefaultConfig ==
  [fees |-> 0, onDevNet |-> FALSE, strictMinimalWithdrawalAmount |-> 2,
   strictMinimalWithdrawalAllAmount |-> 3, nbUTXOBeforeConsolidation |-> 2,
   nbConfirmationsInternalTransfer |-> 1, nbConfirmationsExternalTransfer |-> 3,
   nbConfirmationsBetweenMultipleStepsTransactions |-> 2]

VARIABLES
  userStore,      \* Repository<User>: the persisted records
  nextId,         \* the store's next generated primary key
  registerMutex,  \* the task holding AlphClient.registerMutex, as a set
  deletionMutex,  \* the task holding AlphClient.deletionMutex, as a set
  removing,       \* userStore.remove calls started and not yet completed
  removedIds,     \* history: telegram ids of records a remove has deleted
  pc,             \* each task's position
  call,           \* each task's operation, arguments and locals
  outcome,        \* how each task's promise settled
  config,         \* the configuration the process was started with
  leavingIntentions, \* LeavingService: ids of the users with a leaving intention recorded
  log,            \* each task's gateway calls and status-sink updates, in order
  txCount         \* transactions the node has accepted (the next id is txCount + 1)

regVars == <<userStore, nextId, registerMutex, deletionMutex, removing, removedIds>>
opVars == <<config, leavingIntentions, log, txCount>>
vars == <<userStore, nextId, registerMutex, deletionMutex, removing, removedIds,
          pc, call, outcome, config, leavingIntentions, log, txCount>>

\* ------------------------------------------------------------------ store
\* userStore.existsBy({ telegramId })
existsBy(store, tid) == \E u \in store : u.telegramId = tid

\* userStore.save(user): insert when the entity has no id, else write by id.
saveInsert(store, user, id) == store \cup {[user EXCEPT !.id = id]}
saveUpdate(store, user) == {u \in store : u.id # user.id} \cup {user}

\* userStore.remove(user): delete by primary key
removeById(store, user) == {u \in store : u.id # user.id}

\* ------------------------------------------------------------------ registerUser
\* registerUser(newUser): the call enters registerMutex.runExclusive and waits.
RegisterCall(t, tid) ==
  /\ pc[t] = "idle"
  /\ pc' = [pc EXCEPT ![t] = "r_wait"]
  /\ call' = [call EXCEPT ![t] = [NoCall EXCEPT !.op = "registerUser", !.user = NewUser(tid),
                                  !.absentAtCall = ~existsBy(userStore, tid)]]
  /\ UNCHANGED <<userStore, nextId, registerMutex, deletionMutex, removing, removedIds, outcome, config, leavingIntentions, log, txCount>>

\* Mutant: the callback is run without taking registerMutex.
RegisterMutexFree_Unlocked(t) == TRUE

\* Mutex.runExclusive: the callback starts once the mutex is free.
RegisterMutexFree(t) == registerMutex = {}

RegisterAcquire(t) ==
  /\ pc[t] = "r_wait"
  /\ RegisterMutexFree(t)
  /\ registerMutex' = {t}
  /\ pc' = [pc EXCEPT ![t] = "r_exists"]
  /\ UNCHANGED <<userStore, nextId, deletionMutex, removing, removedIds, call, outcome, config, leavingIntentions, log, txCount>>

\* Mutant: the existence check never rejects.
RegisterExistsBy_Upsert(t) ==
  /\ pc[t] = "r_exists"
  /\ pc' = [pc EXCEPT ![t] = "r_insert"]
  /\ UNCHANGED <<userStore, nextId, registerMutex, deletionMutex, removing, removedIds, call, outcome, config, leavingIntentions, log, txCount>>

\* await userStore.existsBy(...): reject, or go on to the first save.
RegisterExistsBy(t) ==
  /\ pc[t] = "r_exists"
  /\ IF existsBy(userStore, call[t].user.telegramId)
       THEN /\ outcome' = [outcome EXCEPT ![t] = Rejected(USER_ALREADY_REGISTERED)]
            /\ registerMutex' = registerMutex \ {t}
            /\ pc' = [pc EXCEPT ![t] = "done"]
       ELSE /\ pc' = [pc EXCEPT ![t] = "r_insert"]
            /\ UNCHANGED <<outcome, registerMutex>>
  /\ UNCHANGED <<userStore, nextId, deletionMutex, removing, removedIds, call, config, leavingIntentions, log, txCount>>

\* const userWithId = await userStore.save(newUser)
RegisterInsert(t) ==
  /\ pc[t] = "r_insert"
  /\ userStore' = saveInsert(userStore, call[t].user, nextId)
  /\ nextId' = nextId + 1
  /\ call' = [call EXCEPT ![t].user.id = nextId]
  /\ pc' = [pc EXCEPT ![t] = "r_saveAddr"]
  /\ UNCHANGED <<registerMutex, deletionMutex, removing, removedIds, outcome, config, leavingIntentions, log, txCount>>

\* userWithId.address = deriveUserAddress(userWithId); return userStore.save(userWithId)
RegisterSaveAddress(t) ==
  LET userWithId == [call[t].user EXCEPT !.address = deriveUserAddress(call[t].user)] IN
  /\ pc[t] = "r_saveAddr"
  /\ userStore' = saveUpdate(userStore, userWithId)
  /\ call' = [call EXCEPT ![t].user = userWithId]
  /\ outcome' = [outcome EXCEPT ![t] = Resolved(userWithId, 0)]
  /\ registerMutex' = registerMutex \ {t}
  /\ pc' = [pc EXCEPT ![t] = "done"]
  /\ UNCHANGED <<nextId, deletionMutex, removing, removedIds, config, leavingIntentions, log, txCount>>

\* ------------------------------------------------------------------ deleteUser
\* deleteUser(user): the caller passes a record it read from the store.
DeleteCall(t, user) ==
  /\ pc[t] = "idle"
  /\ user \in userStore
  /\ pc' = [pc EXCEPT ![t] = "d_wait"]
  /\ call' = [call EXCEPT ![t] = [NoCall EXCEPT !.op = "deleteUser", !.user = user]]
  /\ UNCHANGED <<userStore, nextId, registerMutex, deletionMutex, removing, removedIds, outcome, config, leavingIntentions, log, txCount>>

\* deletionMutex.runExclusive(async () => { this.userStore.remove(user); }):
\* the callback starts the remove and returns without awaiting it.
DeleteExclusive(t) ==
  /\ pc[t] = "d_wait"
  /\ deletionMutex = {}
  /\ deletionMutex' = {t}
  /\ removing' = removing \cup {[task |-> t, user |-> call[t].user]}
  /\ pc' = [pc EXCEPT ![t] = "d_held"]
  /\ UNCHANGED <<userStore, nextId, registerMutex, removedIds, call, outcome, config, leavingIntentions, log, txCount>>

\* The callback's promise is already resolved: runExclusive releases the mutex
\* and deleteUser resolves.
DeleteRelease(t) ==
  /\ pc[t] = "d_held"
  /\ deletionMutex' = deletionMutex \ {t}
  /\ outcome' = [outcome EXCEPT ![t] = Resolved(call[t].user, 0)]
  /\ pc' = [pc EXCEPT ![t] = "done"]
  /\ UNCHANGED <<userStore, nextId, registerMutex, removing, removedIds, call, config, leavingIntentions, log, txCount>>

\* The store completes a remove that was started.
StoreRemoveDone(r) ==
  /\ r \in removing
  /\ userStore' = removeById(userStore, r.user)
  /\ removing' = removing \ {r}
  /\ removedIds' = removedIds \cup {u.telegramId : u \in {v \in userStore : v.id = r.user.id}}
  /\ UNCHANGED <<nextId, registerMutex, deletionMutex, pc, call, outcome, config, leavingIntentions, log, txCount>>

\* ------------------------------------------------------------------ node gateway
\* What the node answers to getAddressesAddressBalance.
NodeBalances ==
  {[balance |-> b, tokenBalances |-> tb, utxoNum |-> n] :
     b \in {0, 3000, 3001},
     tb \in {<<>>, <<[id |-> "tok1", amount |-> 25], [id |-> "unk9", amount |-> 7]>>,
             <<[id |-> "tok2", amount |-> 4], [id |-> "unk9", amount |-> 7],
               [id |-> "tok1", amount |-> 25]>>},
     n \in {1, 2}}

\* The raw failures a gateway call of task t is checked with: every shape for
\* a call of the first task, three of them for a detached consolidation and
\* for the calls of the other tasks.
DetachedFailures ==
  {[instanceOfError |-> TRUE, message |-> "fetch failed"],
   [instanceOfError |-> TRUE, message |-> "NotEnoughFunds"],
   [instanceOfError |-> FALSE, message |-> "unrecognised"]}
Failures(t) ==
  IF call[t].detached \/ \E s \in Tasks : s < t THEN DetachedFailures ELSE RawErrors

\* One entry of a task's log: a gateway call with its result, or a status update.
LogEntry(api, ok) ==
  [api |-> api, ok |-> ok, txId |-> 0, destinations |-> <<>>, toAddress |-> NoAddress,
   confirmations |-> 0]

GatewayApis ==
  {"getAddressesAddressBalance", "signAndSubmitTransferTx", "postTransactionsSweepAddressBuild",
   "signAndSubmitUnsignedTx", "waitForTxConfirmation"}
GatewayCalls(t) == SelectSeq(log[t], LAMBDA e : e.api \in GatewayApis)
Submissions(t) ==
  SelectSeq(log[t], LAMBDA e : e.ok /\ e.api \in {"signAndSubmitTransferTx", "signAndSubmitUnsignedTx"})

\* Mutant: the pending id is reported on the development network too.
ReportPending_AlsoOnDevNet(t, txId) ==
  IF call[t].hasStatus
    THEN <<[LogEntry("txStatus.setTransactionId", TRUE) EXCEPT !.txId = txId]>>
    ELSE <<>>

\* if (undefined !== txStatus && !EnvConfig.isOnDevNet()) txStatus.setTransactionId(txId).displayUpdate()
ReportPending(t, txId) ==
  IF call[t].hasStatus /\ ~config.onDevNet
    THEN <<[LogEntry("txStatus.setTransactionId", TRUE) EXCEPT !.txId = txId]>>
    ELSE <<>>

\* operatorConfig.addressesByGroup[group]
addressesByGroup(group) == [alphabetOk |-> TRUE, payloadLen |-> 32, key |-> 800 + group]

\* tokenManager.getTokenAmountFromIdAmount(id, amount): rejects an unknown id.
registryRecognises(id) == id \in {TOK.id, TOK2.id}

\* tokenManager.getTokenAmountFromIdAmount(id, amount), for a recognised id.
getTokenAmountFromIdAmount(id, amount) ==
  TokenAmount(amount, IF id = TOK.id THEN TOK ELSE TOK2)

\* Mutant: the native entry is put after the tokens.
convertAddressBalanceToUserBalance_NativeLast(balance) ==
  LET recognised == SelectSeq(balance.tokenBalances, LAMBDA tb : registryRecognises(tb.id)) IN
  [i \in 1..Len(recognised) |->
     getTokenAmountFromIdAmount(recognised[i].id, recognised[i].amount)]
    \o <<TokenAmount(balance.balance, ALPH)>>

\* convertAddressBalanceToUserBalance(balance): the native entry, then the
\* recognised tokens in the node's order.
convertAddressBalanceToUserBalance(balance) ==
  LET recognised == SelectSeq(balance.tokenBalances, LAMBDA tb : registryRecognises(tb.id)) IN
  <<TokenAmount(balance.balance, ALPH)>>
    \o [i \in 1..Len(recognised) |->
          getTokenAmountFromIdAmount(recognised[i].id, recognised[i].amount)]

\* ------------------------------------------------------------------ background tasks
IdleTasks == {s \in Tasks : pc[s] = "idle"}
MinOf(S) == CHOOSE x \in S : \A y \in S : x <= y
Slot(i) == IF i = 1 THEN MinOf(IdleTasks) ELSE MinOf(IdleTasks \ {MinOf(IdleTasks)})
IsSlot(s, users) == \E i \in 1..Len(users) : s = Slot(i)
SlotUser(s, users) == users[CHOOSE i \in 1..Len(users) : s = Slot(i)]

ConsolidateCall(user, detached) ==
  [NoCall EXCEPT !.op = "consolidateIfRequired", !.user = user,
                 !.wallet = getUserWallet(user), !.detached = detached]

\* Mutant: the caller awaits the consolidations it starts.
PcSpawning_Awaited(t, pcNext, users) ==
  [s \in Tasks |-> IF s = t THEN pc[t]
                   ELSE IF IsSlot(s, users) THEN "c_balance" ELSE pc[s]]

\* this.consolidateIfRequired(u).catch(console.error) for each u of users: each
\* starts as a task of its own, and the caller goes on to pcNext.
PcSpawning(t, pcNext, users) ==
  [s \in Tasks |-> IF s = t THEN pcNext
                   ELSE IF IsSlot(s, users) THEN "c_balance" ELSE pc[s]]
CallSpawning(users) ==
  [s \in Tasks |-> IF IsSlot(s, users) THEN ConsolidateCall(SlotUser(s, users), TRUE)
                   ELSE call[s]]

\* ------------------------------------------------------------------ transferFromUserToUser
\* Mutant: the transfer runs inside registerMutex and keeps it while it waits.
TransferCall_UnderRegisterLock(t, sender, receiver, ta, hasStatus) ==
  /\ pc[t] = "idle"
  /\ registerMutex = {}
  /\ registerMutex' = {t}
  /\ pc' = [pc EXCEPT ![t] = "t_submit"]
  /\ call' = [call EXCEPT ![t] =
       [NoCall EXCEPT !.op = "transferFromUserToUser", !.user = sender, !.receiver = receiver,
                      !.requested = ta, !.tokenAmount = ta, !.hasStatus = hasStatus,
                      !.wallet = getUserWallet(sender),
                      !.destinations = <<destination(receiver.address, ta)>>]]
  /\ UNCHANGED <<userStore, nextId, deletionMutex, removing, removedIds, outcome, opVars>>

\* const senderWallet = this.getUserWallet(sender); the destination is built.
TransferCall(t, sender, receiver, ta, hasStatus) ==
  /\ pc[t] = "idle"
  /\ pc' = [pc EXCEPT ![t] = "t_submit"]
  /\ call' = [call EXCEPT ![t] =
       [NoCall EXCEPT !.op = "transferFromUserToUser", !.user = sender, !.receiver = receiver,
                      !.requested = ta, !.tokenAmount = ta, !.hasStatus = hasStatus,
                      !.wallet = getUserWallet(sender),
                      !.destinations = <<destination(receiver.address, ta)>>]]
  /\ UNCHANGED <<regVars, outcome, opVars>>

\* await senderWallet.signAndSubmitTransferTx(...).catch(err => Promise.reject(adaptError(err)))
TransferSubmit(t) ==
  /\ pc[t] = "t_submit"
  /\ \/ /\ txCount' = txCount + 1
        /\ log' = [log EXCEPT ![t] = @ \o
             <<[LogEntry("signAndSubmitTransferTx", TRUE) EXCEPT
                  !.txId = txCount + 1, !.destinations = call[t].destinations]>>
             \o ReportPending(t, txCount + 1)]
        /\ call' = [call EXCEPT ![t].newTx = txCount + 1]
        /\ pc' = [pc EXCEPT ![t] = "t_wait"]
        /\ UNCHANGED outcome
     \/ \E raw \in Failures(t) :
          /\ log' = [log EXCEPT ![t] = Append(@, LogEntry("signAndSubmitTransferTx", FALSE))]
          /\ call' = [call EXCEPT ![t].raw = raw, ![t].failedAt = "submit"]
          /\ outcome' = [outcome EXCEPT ![t] = Rejected(adaptError(raw))]
          /\ pc' = [pc EXCEPT ![t] = "done"]
          /\ UNCHANGED txCount
  /\ UNCHANGED <<regVars, config, leavingIntentions>>

\* Mutant: a check is started for the sender and for the receiver, whoever they are.
TransferConsolidates_Both(sender, receiver) == <<sender, receiver>>

\* The users whose consolidation check a confirmed transfer triggers.
TransferConsolidates(sender, receiver) ==
  IF sender.id # receiver.id THEN <<sender, receiver>> ELSE <<sender>>

\* await waitForTxConfirmation(newTx.txId, nbConfirmationsInternalTransfer, 1000);
\* then the detached consolidation checks, then return newTx.txId.
\* Mutant: the wait gives up by itself.
TransferWait_Deadline(t) ==
  /\ pc[t] = "t_wait"
  /\ outcome' = [outcome EXCEPT ![t] = Rejected(RawError(NoRaw))]
  /\ pc' = [pc EXCEPT ![t] = "done"]
  /\ UNCHANGED <<regVars, call, config, leavingIntentions, log, txCount>>

TransferWait(t) ==
  /\ pc[t] = "t_wait"
  /\ \/ LET users == TransferConsolidates(call[t].user, call[t].receiver) IN
        /\ Cardinality(IdleTasks) >= Len(users)
        /\ log' = [log EXCEPT ![t] = Append(@,
             [LogEntry("waitForTxConfirmation", TRUE) EXCEPT
                !.txId = call[t].newTx,
                !.confirmations = config.nbConfirmationsInternalTransfer])]
        /\ pc' = PcSpawning(t, "done", users)
        /\ call' = CallSpawning(users)
        /\ outcome' = [outcome EXCEPT ![t] = Resolved(NewUser(0), call[t].newTx)]
     \/ \E raw \in Failures(t) :
          /\ log' = [log EXCEPT ![t] = Append(@,
               [LogEntry("waitForTxConfirmation", FALSE) EXCEPT !.txId = call[t].newTx])]
          /\ call' = [call EXCEPT ![t].raw = raw, ![t].failedAt = "wait"]
          /\ outcome' = [outcome EXCEPT ![t] = Rejected(RawError(raw))]
          /\ pc' = [pc EXCEPT ![t] = "done"]
  /\ UNCHANGED <<regVars, config, leavingIntentions, txCount>>

\* ------------------------------------------------------------------ sendAmountToAddressFrom
\* Mutant: an amount equal to the minimum is let through.
TooSmallWithdrawal_Strict(ta, minimal) ==
  isALPH(ta.token) /\ NumberLt(amountAsNumber(ta), minimal)

\* tokenAmount.token.isALPH() && tokenAmount.amountAsNumber() <= strictMinimalWithdrawalAmount
TooSmallWithdrawal(ta, minimal) ==
  isALPH(ta.token) /\ NumberLeq(amountAsNumber(ta), minimal)

\* Mutant: the destination still receives the whole requested amount.
WithdrawDestinations_FullAmount(wallet, ta, destinationAddress, fees) ==
  IF fees > 0
    THEN <<destination(addressesByGroup(wallet.group), PercentageOf(ta, fees)),
           destination(destinationAddress, ta)>>
    ELSE <<destination(destinationAddress, ta)>>

\* The outputs: the fee output first when fees are configured (the fee is
\* taken off the amount), then the destination's.
WithdrawDestinations(wallet, ta, destinationAddress, fees) ==
  IF fees > 0
    THEN <<destination(addressesByGroup(wallet.group), PercentageOf(ta, fees)),
           destination(destinationAddress, AfterPercentage(ta, fees))>>
    ELSE <<destination(destinationAddress, ta)>>

\* Mutant: the destination is not validated.
WithdrawRejectsAddress_Never(destinationAddress) == FALSE

\* if (!isValidAddress(destinationAddress)) reject InvalidAddressError
WithdrawRejectsAddress(destinationAddress) == ~isValidAddress(destinationAddress)

WithdrawCall(t, user, ta, destinationAddress, hasStatus) ==
  LET c == [NoCall EXCEPT !.op = "sendAmountToAddressFrom", !.user = user, !.requested = ta,
                          !.tokenAmount = ta, !.dest = destinationAddress,
                          !.hasStatus = hasStatus] IN
  /\ pc[t] = "idle"
  /\ IF WithdrawRejectsAddress(destinationAddress)
       THEN /\ outcome' = [outcome EXCEPT ![t] = Rejected(InvalidAddressError)]
            /\ call' = [call EXCEPT ![t] = c]
            /\ pc' = [pc EXCEPT ![t] = "done"]
     ELSE IF TooSmallWithdrawal(ta, config.strictMinimalWithdrawalAmount)
       THEN /\ outcome' = [outcome EXCEPT ![t] = Rejected(TooSmallALPHWithdrawalError)]
            /\ call' = [call EXCEPT ![t] = c]
            /\ pc' = [pc EXCEPT ![t] = "done"]
     ELSE /\ call' = [call EXCEPT ![t] =
               [c EXCEPT !.wallet = getUserWallet(user),
                         !.tokenAmount = IF config.fees > 0 THEN AfterPercentage(ta, config.fees) ELSE ta,
                         !.destinations = WithdrawDestinations(getUserWallet(user), ta,
                                                               destinationAddress, config.fees)]]
          /\ pc' = [pc EXCEPT ![t] = "w_submit"]
          /\ UNCHANGED outcome
  /\ UNCHANGED <<regVars, opVars>>

WithdrawSubmit(t) ==
  /\ pc[t] = "w_submit"
  /\ \/ /\ txCount' = txCount + 1
        /\ log' = [log EXCEPT ![t] = @ \o
             <<[LogEntry("signAndSubmitTransferTx", TRUE) EXCEPT
                  !.txId = txCount + 1, !.destinations = call[t].destinations]>>
             \o ReportPending(t, txCount + 1)]
        /\ call' = [call EXCEPT ![t].newTx = txCount + 1]
        /\ pc' = [pc EXCEPT ![t] = "w_wait"]
        /\ UNCHANGED outcome
     \/ \E raw \in Failures(t) :
          /\ log' = [log EXCEPT ![t] = Append(@, LogEntry("signAndSubmitTransferTx", FALSE))]
          /\ call' = [call EXCEPT ![t].raw = raw, ![t].failedAt = "submit"]
          /\ outcome' = [outcome EXCEPT ![t] = Rejected(adaptError(raw))]
          /\ pc' = [pc EXCEPT ![t] = "done"]
          /\ UNCHANGED txCount
  /\ UNCHANGED <<regVars, config, leavingIntentions>>

\* await waitForTxConfirmation(newTx.txId, nbConfirmationsExternalTransfer, 1000);
\* then the detached consolidation check of the user, then return newTx.txId.
WithdrawWait(t) ==
  /\ pc[t] = "w_wait"
  /\ \/ /\ Cardinality(IdleTasks) >= 1
        /\ log' = [log EXCEPT ![t] = Append(@,
             [LogEntry("waitForTxConfirmation", TRUE) EXCEPT
                !.txId = call[t].newTx,
                !.confirmations = config.nbConfirmationsExternalTransfer])]
        /\ pc' = PcSpawning(t, "done", <<call[t].user>>)
        /\ call' = CallSpawning(<<call[t].user>>)
        /\ outcome' = [outcome EXCEPT ![t] = Resolved(NewUser(0), call[t].newTx)]
     \/ \E raw \in Failures(t) :
          /\ log' = [log EXCEPT ![t] = Append(@,
               [LogEntry("waitForTxConfirmation", FALSE) EXCEPT !.txId = call[t].newTx])]
          /\ call' = [call EXCEPT ![t].raw = raw, ![t].failedAt = "wait"]
          /\ outcome' = [outcome EXCEPT ![t] = Rejected(RawError(raw))]
          /\ pc' = [pc EXCEPT ![t] = "done"]
  /\ UNCHANGED <<regVars, config, leavingIntentions, txCount>>

\* ------------------------------------------------------------------ sweepWalletFromUserTo
\* An error object seen as a thrown value again: a domain error is an Error
\* whose message is the kind's own text, which no raw shape matches.
AsThrown(err) ==
  IF err.kind = "raw" THEN err.cause ELSE [instanceOfError |-> TRUE, message |-> err.kind]

\* What the caller of sweepWalletFromUserTo rejects with: the sweep's own
\* adaptError, and consolidateIfRequired's catch adapts that once more.
SweepRejection(op, raw) ==
  IF op = "consolidateIfRequired" THEN adaptError(AsThrown(adaptError(raw)))
  ELSE adaptError(raw)

\* nodeProvider.transactions.postTransactionsSweepAddressBuild({ fromPublicKey, toAddress })
SweepBuild(t) ==
  /\ pc[t] = "sw_build"
  /\ \/ \E k \in 0..MaxSweepTxs :
          /\ log' = [log EXCEPT ![t] = Append(@,
               [LogEntry("postTransactionsSweepAddressBuild", TRUE) EXCEPT !.toAddress = call[t].dest])]
          /\ call' = [call EXCEPT ![t].unsignedTxs = k]
          /\ pc' = [pc EXCEPT ![t] = "sw_submit"]
          /\ UNCHANGED outcome
     \/ \E raw \in Failures(t) :
          /\ log' = [log EXCEPT ![t] = Append(@,
               [LogEntry("postTransactionsSweepAddressBuild", FALSE) EXCEPT !.toAddress = call[t].dest])]
          /\ call' = [call EXCEPT ![t].raw = raw, ![t].failedAt = "sweepBuild"]
          /\ outcome' = [outcome EXCEPT ![t] = Rejected(SweepRejection(call[t].op, raw))]
          /\ pc' = [pc EXCEPT ![t] = "done"]
  /\ UNCHANGED <<regVars, config, leavingIntentions, txCount>>

\* The log of the k submissions of one sweep, those of `failed` rejected, the
\* others accepted with the ids after `base`, in the order of the built list.
RECURSIVE SubmitEntries(_, _, _, _)
SubmitEntries(k, failed, base, dest) ==
  IF k = 0 THEN <<>>
  ELSE LET before == SubmitEntries(k - 1, failed, base, dest)
           okBefore == Len(SelectSeq(before, LAMBDA e : e.ok)) IN
       Append(before,
              IF k \in failed
                THEN [LogEntry("signAndSubmitUnsignedTx", FALSE) EXCEPT !.toAddress = dest]
                ELSE [LogEntry("signAndSubmitUnsignedTx", TRUE) EXCEPT
                        !.toAddress = dest, !.txId = base + okBefore + 1])

\* Mutant: the ids come back in reverse order.
TxIdsOf_Reversed(entries) ==
  LET oks == SelectSeq(entries, LAMBDA e : e.ok) IN
  [i \in 1..Len(oks) |-> oks[Len(oks) + 1 - i].txId]

\* txResults.map(tx => tx.txId)
TxIdsOf(entries) ==
  LET oks == SelectSeq(entries, LAMBDA e : e.ok) IN [i \in 1..Len(oks) |-> oks[i].txId]

\* unsignedTxs.map(tx => signAndSubmitUnsignedTx(...)), Promise.all, the status
\* update with the first id, then what the caller does with the ids.
SweepSubmit(t) ==
  /\ pc[t] = "sw_submit"
  /\ \/ LET entries == SubmitEntries(call[t].unsignedTxs, {}, txCount, call[t].dest)
            ids == TxIdsOf(entries) IN
        /\ txCount' = txCount + Len(ids)
        /\ log' = [log EXCEPT ![t] = @ \o entries
                     \o (IF Len(ids) > 0 THEN ReportPending(t, ids[1]) ELSE <<>>)]
        /\ IF call[t].op = "takeFeesAndSweepWalletFromUserTo"
             THEN IF Len(ids) = 0
                    THEN /\ outcome' = [outcome EXCEPT ![t] = Resolved(NewUser(0), 0)]
                         /\ pc' = [pc EXCEPT ![t] = "done"]
                         /\ UNCHANGED call
                    ELSE /\ call' = [call EXCEPT ![t].newTx = ids[1]]
                         /\ pc' = [pc EXCEPT ![t] = "s_wait"]
                         /\ UNCHANGED outcome
             ELSE /\ outcome' = [outcome EXCEPT ![t] = ResolvedTxIds(ids)]
                  /\ pc' = [pc EXCEPT ![t] = "done"]
                  /\ UNCHANGED call
     \/ \E failed \in SUBSET (1..call[t].unsignedTxs), raw \in Failures(t) :
          LET entries == SubmitEntries(call[t].unsignedTxs, failed, txCount, call[t].dest) IN
          /\ failed # {}
          /\ txCount' = txCount + Len(TxIdsOf(entries))
          /\ log' = [log EXCEPT ![t] = @ \o entries]
          /\ call' = [call EXCEPT ![t].raw = raw, ![t].failedAt = "sweepSubmit"]
          /\ outcome' = [outcome EXCEPT ![t] = Rejected(SweepRejection(call[t].op, raw))]
          /\ pc' = [pc EXCEPT ![t] = "done"]
  /\ UNCHANGED <<regVars, config, leavingIntentions>>

\* ------------------------------------------------------------------ takeFeesAndSweepWalletFromUserTo
\* Mutant: a balance equal to the threshold is let through.
TooSmallToSweep_Strict(userBalanceAlph, minimalAll) ==
  NumberLt(amountAsNumber(userBalanceAlph), minimalAll)

\* userBalanceAlph.amountAsNumber() <= strictMinimalWithdrawalAllAmount
TooSmallToSweep(userBalanceAlph, minimalAll) ==
  NumberLeq(amountAsNumber(userBalanceAlph), minimalAll)

\* if (undefined !== txStatus) txStatus.setConfirmed().nextStep().displayUpdate()
NextStep(t, hasStatus) ==
  IF hasStatus THEN <<LogEntry("txStatus.nextStep", TRUE)>> ELSE <<>>

\* Whether the fee stage runs: if (this.operatorConfig.fees > 0)
TakesFees(fees) == fees > 0

\* nodeBalance is what the node holds for the user's address during the call.
SweepAllCall(t, user, destinationAddress, hasStatus, nodeBalance) ==
  LET c == [NoCall EXCEPT !.op = "takeFeesAndSweepWalletFromUserTo", !.user = user,
                          !.dest = destinationAddress, !.hasStatus = hasStatus,
                          !.nodeBalance = nodeBalance] IN
  /\ pc[t] = "idle"
  /\ IF ~isValidAddress(destinationAddress)
       THEN /\ outcome' = [outcome EXCEPT ![t] = Rejected(InvalidAddressError)]
            /\ call' = [call EXCEPT ![t] = c]
            /\ pc' = [pc EXCEPT ![t] = "done"]
            /\ UNCHANGED log
     ELSE IF TakesFees(config.fees)
       THEN /\ call' = [call EXCEPT ![t] = [c EXCEPT !.wallet = getUserWallet(user)]]
            /\ pc' = [pc EXCEPT ![t] = "s_balance"]
            /\ UNCHANGED <<outcome, log>>
     ELSE /\ call' = [call EXCEPT ![t] = [c EXCEPT !.wallet = getUserWallet(user)]]
          /\ log' = [log EXCEPT ![t] = @ \o NextStep(t, hasStatus)]
          /\ pc' = [pc EXCEPT ![t] = "sw_build"]
          /\ UNCHANGED outcome
  /\ UNCHANGED <<regVars, config, leavingIntentions, txCount>>

\* Mutant: the fee output carries the native fee only.
FeeDestinations_NativeOnly(wallet, userBalance, fees) ==
  <<[address |-> addressesByGroup(wallet.group),
     attoAlphAmount |-> PercentageOf(userBalance[1], fees).amount,
     tokens |-> <<>>]>>

\* The single fee output: the native fee, and the fee of every other asset.
\* (filter(t => t.token.isALPH) tests the method itself, which is truthy for
\* every entry, so [0] is the first entry: the native one.)
FeeDestinations(wallet, userBalance, fees) ==
  LET operatorFeesTokenAmount == [i \in 1..Len(userBalance) |-> PercentageOf(userBalance[i], fees)]
      others == SelectSeq(operatorFeesTokenAmount, LAMBDA f : ~isALPH(f.token)) IN
  <<[address |-> addressesByGroup(wallet.group),
     attoAlphAmount |-> operatorFeesTokenAmount[1].amount,
     tokens |-> [i \in 1..Len(others) |-> [id |-> others[i].token.id, amount |-> others[i].amount]]]>>

\* const userBalance = await this.getUserBalance(user); the threshold check;
\* the fee amounts.
SweepAllBalance(t) ==
  /\ pc[t] = "s_balance"
  /\ \/ LET balance == call[t].nodeBalance IN
          LET userBalance == convertAddressBalanceToUserBalance(balance)
              userBalanceAlph == SelectSeq(userBalance, LAMBDA u : isALPH(u.token))[1] IN
          /\ log' = [log EXCEPT ![t] = Append(@, LogEntry("getAddressesAddressBalance", TRUE))]
          /\ IF TooSmallToSweep(userBalanceAlph, config.strictMinimalWithdrawalAllAmount)
               THEN /\ call' = [call EXCEPT ![t].userBalance = userBalance]
                    /\ outcome' = [outcome EXCEPT ![t] = Rejected(TooSmallALPHWithdrawalError)]
                    /\ pc' = [pc EXCEPT ![t] = "done"]
               ELSE /\ call' = [call EXCEPT
                         ![t].userBalance = userBalance,
                         ![t].destinations = FeeDestinations(call[t].wallet, userBalance, config.fees)]
                    /\ pc' = [pc EXCEPT ![t] = "s_feeSubmit"]
                    /\ UNCHANGED outcome
     \/ \E raw \in Failures(t) :
          /\ log' = [log EXCEPT ![t] = Append(@, LogEntry("getAddressesAddressBalance", FALSE))]
          /\ call' = [call EXCEPT ![t].raw = raw, ![t].failedAt = "balance"]
          /\ outcome' = [outcome EXCEPT ![t] = Rejected(adaptBalanceError(raw))]
          /\ pc' = [pc EXCEPT ![t] = "done"]
  /\ UNCHANGED <<regVars, config, leavingIntentions, txCount>>

\* Mutant: the status advances as soon as the fee transaction is submitted.
SweepAllFeeSubmit_AdvancesEarly(t) ==
  /\ pc[t] = "s_feeSubmit"
  /\ txCount' = txCount + 1
  /\ log' = [log EXCEPT ![t] = @ \o
       <<[LogEntry("signAndSubmitTransferTx", TRUE) EXCEPT
            !.txId = txCount + 1, !.destinations = call[t].destinations]>>
       \o ReportPending(t, txCount + 1) \o NextStep(t, call[t].hasStatus)]
  /\ call' = [call EXCEPT ![t].newTx = txCount + 1]
  /\ pc' = [pc EXCEPT ![t] = "s_feeWait"]
  /\ UNCHANGED <<regVars, config, leavingIntentions, outcome>>

\* const newTx = await userWallet.signAndSubmitTransferTx({ destinations: [fee output] })
\*   .catch(err => Promise.reject(adaptError(err))); the pending id is reported.
SweepAllFeeSubmit(t) ==
  /\ pc[t] = "s_feeSubmit"
  /\ \/ /\ txCount' = txCount + 1
        /\ log' = [log EXCEPT ![t] = @ \o
             <<[LogEntry("signAndSubmitTransferTx", TRUE) EXCEPT
                  !.txId = txCount + 1, !.destinations = call[t].destinations]>>
             \o ReportPending(t, txCount + 1)]
        /\ call' = [call EXCEPT ![t].newTx = txCount + 1]
        /\ pc' = [pc EXCEPT ![t] = "s_feeWait"]
        /\ UNCHANGED outcome
     \/ \E raw \in Failures(t) :
          /\ log' = [log EXCEPT ![t] = Append(@, LogEntry("signAndSubmitTransferTx", FALSE))]
          /\ call' = [call EXCEPT ![t].raw = raw, ![t].failedAt = "submit"]
          /\ outcome' = [outcome EXCEPT ![t] = Rejected(adaptError(raw))]
          /\ pc' = [pc EXCEPT ![t] = "done"]
          /\ UNCHANGED txCount
  /\ UNCHANGED <<regVars, config, leavingIntentions>>

\* await waitForTxConfirmation(newTx.txId, nbConfirmationsBetweenMultipleStepsTransactions, 1000);
\* then the status advances and the sweep starts.
SweepAllFeeWait(t) ==
  /\ pc[t] = "s_feeWait"
  /\ \/ /\ log' = [log EXCEPT ![t] = Append(@,
             [LogEntry("waitForTxConfirmation", TRUE) EXCEPT
                !.txId = call[t].newTx,
                !.confirmations = config.nbConfirmationsBetweenMultipleStepsTransactions])
             \o NextStep(t, call[t].hasStatus)]
        /\ pc' = [pc EXCEPT ![t] = "sw_build"]
        /\ UNCHANGED <<call, outcome>>
     \/ \E raw \in Failures(t) :
          /\ log' = [log EXCEPT ![t] = Append(@,
               [LogEntry("waitForTxConfirmation", FALSE) EXCEPT !.txId = call[t].newTx])]
          /\ call' = [call EXCEPT ![t].raw = raw, ![t].failedAt = "wait"]
          /\ outcome' = [outcome EXCEPT ![t] = Rejected(RawError(raw))]
          /\ pc' = [pc EXCEPT ![t] = "done"]
  /\ UNCHANGED <<regVars, config, leavingIntentions, txCount>>

\* Mutant: a failure of the last wait is swallowed and the id returned.
SweepAllWait_SwallowsFailure(t) ==
  /\ pc[t] = "s_wait"
  /\ \/ log' = [log EXCEPT ![t] = Append(@,
          [LogEntry("waitForTxConfirmation", TRUE) EXCEPT
             !.txId = call[t].newTx,
             !.confirmations = config.nbConfirmationsExternalTransfer])]
     \/ log' = [log EXCEPT ![t] = Append(@,
          [LogEntry("waitForTxConfirmation", FALSE) EXCEPT !.txId = call[t].newTx])]
  /\ outcome' = [outcome EXCEPT ![t] = Resolved(NewUser(0), call[t].newTx)]
  /\ pc' = [pc EXCEPT ![t] = "done"]
  /\ UNCHANGED <<regVars, call, config, leavingIntentions, txCount>>

\* await waitForTxConfirmation(sweepAllTx[0], nbConfirmationsExternalTransfer, 1000); return sweepAllTx[0]
SweepAllWait(t) ==
  /\ pc[t] = "s_wait"
  /\ \/ /\ log' = [log EXCEPT ![t] = Append(@,
             [LogEntry("waitForTxConfirmation", TRUE) EXCEPT
                !.txId = call[t].newTx,
                !.confirmations = config.nbConfirmationsExternalTransfer])]
        /\ outcome' = [outcome EXCEPT ![t] = Resolved(NewUser(0), call[t].newTx)]
        /\ pc' = [pc EXCEPT ![t] = "done"]
        /\ UNCHANGED call
     \/ \E raw \in Failures(t) :
          /\ log' = [log EXCEPT ![t] = Append(@,
               [LogEntry("waitForTxConfirmation", FALSE) EXCEPT !.txId = call[t].newTx])]
          /\ call' = [call EXCEPT ![t].raw = raw, ![t].failedAt = "wait"]
          /\ outcome' = [outcome EXCEPT ![t] = Rejected(RawError(raw))]
          /\ pc' = [pc EXCEPT ![t] = "done"]
  /\ UNCHANGED <<regVars, config, leavingIntentions, txCount>>

\* ------------------------------------------------------------------ emptyWalletForDeletion
\* sweepWalletFromUserTo(getUserWallet(user), EnvConfig.operator.addressesByGroup[0])
EmptyWalletCall(t, user) ==
  /\ pc[t] = "idle"
  /\ call' = [call EXCEPT ![t] =
       [NoCall EXCEPT !.op = "emptyWalletForDeletion", !.user = user,
                      !.wallet = getUserWallet(user), !.dest = addressesByGroup(0)]]
  /\ pc' = [pc EXCEPT ![t] = "sw_build"]
  /\ UNCHANGED <<regVars, outcome, opVars>>

\* ------------------------------------------------------------------ consolidateIfRequired
\* A direct call; the detached ones are started by transfer and withdrawal.
ConsolidateDirectCall(t, user) ==
  /\ pc[t] = "idle"
  /\ call' = [call EXCEPT ![t] = ConsolidateCall(user, FALSE)]
  /\ pc' = [pc EXCEPT ![t] = "c_balance"]
  /\ UNCHANGED <<regVars, outcome, opVars>>

\* Mutant: an address at the threshold is left alone too.
NoNeedToConsolidate_AtThreshold(utxoNum) == utxoNum <= config.nbUTXOBeforeConsolidation

\* if (addressBalance.utxoNum < EnvConfig.bot.nbUTXOBeforeConsolidation) return
NoNeedToConsolidate(utxoNum) == utxoNum < config.nbUTXOBeforeConsolidation

\* getAddressesAddressBalance(userWallet.address, { mempool }): nothing to do
\* below nbUTXOBeforeConsolidation, else consolidateUTXO: a sweep to the
\* wallet's own address.
ConsolidateBalance(t) ==
  /\ pc[t] = "c_balance"
  /\ \/ \E balance \in NodeBalances :
          /\ log' = [log EXCEPT ![t] = Append(@, LogEntry("getAddressesAddressBalance", TRUE))]
          /\ IF NoNeedToConsolidate(balance.utxoNum)
               THEN /\ outcome' = [outcome EXCEPT ![t] = ResolvedTxIds(<<>>)]
                    /\ pc' = [pc EXCEPT ![t] = "done"]
                    /\ call' = [call EXCEPT ![t].nodeBalance.utxoNum = balance.utxoNum]
               ELSE /\ call' = [call EXCEPT ![t].dest = call[t].wallet.address,
                                            ![t].nodeBalance.utxoNum = balance.utxoNum]
                    /\ pc' = [pc EXCEPT ![t] = "sw_build"]
                    /\ UNCHANGED outcome
     \/ \E raw \in Failures(t) :
          /\ log' = [log EXCEPT ![t] = Append(@, LogEntry("getAddressesAddressBalance", FALSE))]
          /\ call' = [call EXCEPT ![t].raw = raw, ![t].failedAt = "balance"]
          /\ outcome' = [outcome EXCEPT ![t] = Rejected(adaptError(raw))]
          /\ pc' = [pc EXCEPT ![t] = "done"]
  /\ UNCHANGED <<regVars, config, leavingIntentions, txCount>>

\* ------------------------------------------------------------------ balance aggregator
\* sumUserBalance: one entry per asset, the amounts added.
AddToBalance(total, ta) ==
  IF \E i \in 1..Len(total) : total[i].token.id = ta.token.id
    THEN [i \in 1..Len(total) |->
            IF total[i].token.id = ta.token.id
              THEN TokenAmount(total[i].amount + ta.amount, ta.token) ELSE total[i]]
    ELSE Append(total, ta)

RECURSIVE MergeBalance(_, _)
MergeBalance(total, balance) ==
  IF balance = <<>> THEN total
  ELSE MergeBalance(AddToBalance(total, Head(balance)), Tail(balance))

RECURSIVE sumUserBalance(_)
sumUserBalance(balances) ==
  IF balances = <<>> THEN <<>>
  ELSE MergeBalance(sumUserBalance(SubSeq(balances, 1, Len(balances) - 1)),
                    balances[Len(balances)])

\* getUserBalance(user, token?): token "" stands for no filter.
GetUserBalanceCall(t, user, tokenId) ==
  /\ pc[t] = "idle"
  /\ call' = [call EXCEPT ![t] =
       [NoCall EXCEPT !.op = "getUserBalance", !.user = user, !.tokenFilter = tokenId]]
  /\ pc' = [pc EXCEPT ![t] = "b_balance"]
  /\ UNCHANGED <<regVars, outcome, opVars>>

GetUserBalanceQuery(t) ==
  /\ pc[t] = "b_balance"
  /\ \/ \E balance \in NodeBalances :
          LET userBalance == convertAddressBalanceToUserBalance(balance)
              tokenId == call[t].tokenFilter IN
          /\ log' = [log EXCEPT ![t] = Append(@, LogEntry("getAddressesAddressBalance", TRUE))]
          /\ outcome' = [outcome EXCEPT ![t] = ResolvedBalance(
               IF tokenId = "" THEN userBalance
               ELSE SelectSeq(userBalance, LAMBDA u : u.token.id = tokenId))]
          /\ call' = [call EXCEPT ![t].nodeBalance = balance]
     \/ \E raw \in Failures(t) :
          /\ log' = [log EXCEPT ![t] = Append(@, LogEntry("getAddressesAddressBalance", FALSE))]
          /\ call' = [call EXCEPT ![t].raw = raw, ![t].failedAt = "balance"]
          /\ outcome' = [outcome EXCEPT ![t] = Rejected(adaptBalanceError(raw))]
  /\ pc' = [pc EXCEPT ![t] = "done"]
  /\ UNCHANGED <<regVars, config, leavingIntentions, txCount>>

\* getTotalTokenAmountFromAddresses(addresses): every balance query at once,
\* each converted, the results summed; no catch.
FromAddressesCall(t, addresses) ==
  /\ pc[t] = "idle"
  /\ call' = [call EXCEPT ![t] =
       [NoCall EXCEPT !.op = "getTotalTokenAmountFromAddresses", !.addresses = addresses]]
  /\ pc' = [pc EXCEPT ![t] = "f_balances"]
  /\ UNCHANGED <<regVars, outcome, opVars>>

FromAddressesQuery(t) ==
  LET n == Len(call[t].addresses) IN
  /\ pc[t] = "f_balances"
  /\ \/ \E balances \in [1..n -> NodeBalances] :
          /\ log' = [log EXCEPT ![t] = @ \o
               [i \in 1..n |-> [LogEntry("getAddressesAddressBalance", TRUE) EXCEPT
                                  !.toAddress = call[t].addresses[i]]]]
          /\ outcome' = [outcome EXCEPT ![t] = ResolvedBalance(
               sumUserBalance([i \in 1..n |-> convertAddressBalanceToUserBalance(balances[i])]))]
          /\ UNCHANGED call
     \/ \E failed \in 1..n, raw \in Failures(t) :
          /\ log' = [log EXCEPT ![t] = @ \o
               [i \in 1..n |-> [LogEntry("getAddressesAddressBalance", i # failed) EXCEPT
                                  !.toAddress = call[t].addresses[i]]]]
          /\ call' = [call EXCEPT ![t].raw = raw, ![t].failedAt = "balance"]
          /\ outcome' = [outcome EXCEPT ![t] = Rejected(RawError(raw))]
  /\ pc' = [pc EXCEPT ![t] = "done"]
  /\ UNCHANGED <<regVars, config, leavingIntentions, txCount>>

\* ------------------------------------------------------------------ orchestrator calls, one at a time
\* The users registered before the calls, as registerUser leaves them.
RegisteredUser(id) ==
  [id |-> id, telegramId |-> 100 + id, address |-> WalletAddressOf(id)]
RegisteredUsers == {RegisteredUser(1), RegisteredUser(2)}

Configs ==
  {[DefaultConfig EXCEPT !.fees = f, !.onDevNet = d] : f \in {0, 10}, d \in BOOLEAN}

\* Destinations a user may type: a valid address, one with a character
\* outside the alphabet, one that decodes to a short payload.
DestinationAddresses ==
  {[alphabetOk |-> TRUE, payloadLen |-> 32, key |-> 900],
   [alphabetOk |-> FALSE, payloadLen |-> 32, key |-> 901],
   [alphabetOk |-> TRUE, payloadLen |-> 31, key |-> 902]}

\* Requested amounts, in smallest units: below, at and above the minimal
\* withdrawal of 2 ALPH.
RequestedAmounts == {TokenAmount(a, tk) : a \in {5, 2000, 2001}, tk \in {ALPH, TOK}}

TransferAmounts == {TokenAmount(5, tk) : tk \in {ALPH, TOK}}

AddressLists == {<<>>, <<addressesByGroup(0)>>, <<addressesByGroup(0), addressesByGroup(1)>>}

\* The task that issues the calls; the other tasks run what it detaches.
Caller == MinOf(Tasks)

InitOps ==
  /\ userStore = RegisteredUsers
  /\ nextId = 3
  /\ registerMutex = {}
  /\ deletionMutex = {}
  /\ removing = {}
  /\ removedIds = {}
  /\ pc = [t \in Tasks |-> "idle"]
  /\ call = [t \in Tasks |-> NoCall]
  /\ outcome = [t \in Tasks |-> Pending]
  /\ config \in Configs
  /\ leavingIntentions = {}
  /\ log = [t \in Tasks |-> <<>>]
  /\ txCount = 0

NextOps ==
  \/ \E sender, receiver \in userStore, ta \in TransferAmounts, hasStatus \in BOOLEAN :
       TransferCall(Caller, sender, receiver, ta, hasStatus)
  \/ \E user \in userStore, ta \in RequestedAmounts, d \in DestinationAddresses, hasStatus \in BOOLEAN :
       WithdrawCall(Caller, user, ta, d, hasStatus)
  \/ \E user \in userStore, d \in DestinationAddresses, hasStatus \in BOOLEAN,
          balance \in NodeBalances :
       SweepAllCall(Caller, user, d, hasStatus, balance)
  \/ \E user \in userStore : EmptyWalletCall(Caller, user)
  \/ \E user \in userStore : ConsolidateDirectCall(Caller, user)
  \/ \E user \in userStore, tokenId \in {"", ALPH.id, TOK.id} : GetUserBalanceCall(Caller, user, tokenId)
  \/ \E addresses \in AddressLists : FromAddressesCall(Caller, addresses)
  \/ \E t \in Tasks :
       \/ TransferSubmit(t)
       \/ TransferWait(t)
       \/ WithdrawSubmit(t)
       \/ WithdrawWait(t)
       \/ SweepAllBalance(t)
       \/ SweepAllFeeSubmit(t)
       \/ SweepAllFeeWait(t)
       \/ SweepAllWait(t)
       \/ SweepBuild(t)
       \/ SweepSubmit(t)
       \/ ConsolidateBalance(t)
       \/ GetUserBalanceQuery(t)
       \/ FromAddressesQuery(t)

SpecOps == InitOps /\ [][NextOps]_vars

\* The same calls with a node that answers: every gateway call a task is
\* blocked on eventually returns, and every wait for a confirmation ends.
SpecOpsLive ==
  SpecOps /\ \A t \in Tasks :
    WF_vars(\/ TransferSubmit(t) \/ TransferWait(t)
            \/ WithdrawSubmit(t) \/ WithdrawWait(t)
            \/ SweepAllBalance(t) \/ SweepAllFeeSubmit(t) \/ SweepAllFeeWait(t)
            \/ SweepAllWait(t) \/ SweepBuild(t) \/ SweepSubmit(t)
            \/ ConsolidateBalance(t) \/ GetUserBalanceQuery(t) \/ FromAddressesQuery(t))

\* ------------------------------------------------------------------ getTotalTokenAmount
\* userStore.find({ skip, take }): the records in primary-key order.
RECURSIVE UsersById(_)
UsersById(store) ==
  IF store = {} THEN <<>>
  ELSE LET first == CHOOSE u \in store : \A v \in store : u.id <= v.id IN
       <<first>> \o UsersById(store \ {first})

Min(a, b) == IF a <= b THEN a ELSE b
find(store, skip, take) ==
  LET all == UsersById(store) IN SubSeq(all, skip + 1, Min(skip + take, Len(all)))

\* Mutant: the quotient is rounded down.
Ceil_Floor(a, b) == a \div b

\* Math.ceil(a / b)
Ceil(a, b) == (a + b - 1) \div b

\* ledger[id] is what the node holds for the address of user id during the call.
TotalCall(t, ledger) ==
  /\ pc[t] = "idle"
  /\ call' = [call EXCEPT ![t] = [NoCall EXCEPT !.op = "getTotalTokenAmount", !.ledger = ledger]]
  /\ pc' = [pc EXCEPT ![t] = "g_count"]
  /\ UNCHANGED <<regVars, outcome, opVars>>

\* const totalNbrUsers = await userStore.count(); userBuffer = Math.ceil(totalNbrUsers/10);
\* the loop starts at i = 0 and runs while i < totalNbrUsers.
TotalCount(t) ==
  LET totalNbrUsers == Cardinality(userStore) IN
  /\ pc[t] = "g_count"
  /\ call' = [call EXCEPT ![t].totalNbrUsers = totalNbrUsers,
                          ![t].userBuffer = Ceil(totalNbrUsers, 10),
                          ![t].i = 0, ![t].totalTokenAmount = <<>>]
  /\ IF 0 < totalNbrUsers
       THEN /\ pc' = [pc EXCEPT ![t] = "g_find"]
            /\ UNCHANGED outcome
       ELSE /\ pc' = [pc EXCEPT ![t] = "done"]
            /\ outcome' = [outcome EXCEPT ![t] = ResolvedBalance(<<>>)]
  /\ UNCHANGED <<regVars, opVars>>

\* The offset of the batch read at loop index i: skip: userBuffer*i
BatchSkip(userBuffer, i) == userBuffer * i

\* const currentUserSet = await userStore.find({ skip: userBuffer*i, take: userBuffer })
TotalFind(t) ==
  /\ pc[t] = "g_find"
  /\ call' = [call EXCEPT ![t].currentUserSet =
       find(userStore, BatchSkip(call[t].userBuffer, call[t].i), call[t].userBuffer)]
  /\ log' = [log EXCEPT ![t] = Append(@, LogEntry("userStore.find", TRUE))]
  /\ pc' = [pc EXCEPT ![t] = "g_balances"]
  /\ UNCHANGED <<regVars, outcome, config, leavingIntentions, txCount>>

\* currentUserBalance = await Promise.all(currentUserSet.map(u => getUserBalance(u)));
\* currentUserBalance.push(totalTokenAmount); totalTokenAmount = sumUserBalance(...);
\* i += userBuffer and the loop test.
TotalBalances(t) ==
  LET users == call[t].currentUserSet
      n == Len(users) IN
  /\ pc[t] = "g_balances"
  /\ \/ LET currentUserBalance ==
              [k \in 1..n |-> convertAddressBalanceToUserBalance(call[t].ledger[users[k].id])]
            total == sumUserBalance(Append(currentUserBalance, call[t].totalTokenAmount))
            i == call[t].i + call[t].userBuffer IN
        /\ log' = [log EXCEPT ![t] = @ \o
             [k \in 1..n |-> [LogEntry("getAddressesAddressBalance", TRUE) EXCEPT
                                !.toAddress = users[k].address]]]
        /\ call' = [call EXCEPT ![t].totalTokenAmount = total, ![t].i = i]
        /\ IF i < call[t].totalNbrUsers
             THEN /\ pc' = [pc EXCEPT ![t] = "g_find"]
                  /\ UNCHANGED outcome
             ELSE /\ pc' = [pc EXCEPT ![t] = "done"]
                  /\ outcome' = [outcome EXCEPT ![t] = ResolvedBalance(total)]
     \/ \E failed \in 1..n, raw \in Failures(t) :
          /\ log' = [log EXCEPT ![t] = @ \o
               [k \in 1..n |-> [LogEntry("getAddressesAddressBalance", k # failed) EXCEPT
                                  !.toAddress = users[k].address]]]
          /\ call' = [call EXCEPT ![t].raw = raw, ![t].failedAt = "balance"]
          /\ outcome' = [outcome EXCEPT ![t] = Rejected(adaptBalanceError(raw))]
          /\ pc' = [pc EXCEPT ![t] = "done"]
  /\ UNCHANGED <<regVars, config, leavingIntentions, txCount>>

\* ------------------------------------------------------------------ the aggregate over a store of any size
\* What the node holds for user id: a native amount, and a token for every
\* second user.
HeldBy(id, native) ==
  [balance |-> native,
   tokenBalances |-> IF id % 2 = 0 THEN <<[id |-> TOK.id, amount |-> 5]>> ELSE <<>>,
   utxoNum |-> 1]
Ledgers(n) ==
  {[id \in 1..n |-> HeldBy(id, b)] : b \in {1, 2}} \cup {[id \in 1..n |-> HeldBy(id, id)]}

InitTotal ==
  /\ \E n \in 0..MaxStoreUsers :
       /\ userStore = {RegisteredUser(id) : id \in 1..n}
       /\ nextId = n + 1
  /\ registerMutex = {}
  /\ deletionMutex = {}
  /\ removing = {}
  /\ removedIds = {}
  /\ pc = [t \in Tasks |-> "idle"]
  /\ call = [t \in Tasks |-> NoCall]
  /\ outcome = [t \in Tasks |-> Pending]
  /\ config = DefaultConfig
  /\ leavingIntentions = {}
  /\ log = [t \in Tasks |-> <<>>]
  /\ txCount = 0

NextTotal ==
  \/ \E ledger \in Ledgers(Cardinality(userStore)) : TotalCall(Caller, ledger)
  \/ TotalCount(Caller)
  \/ TotalFind(Caller)
  \/ TotalBalances(Caller)

SpecTotal == InitTotal /\ [][NextTotal]_vars

\* ------------------------------------------------------------------ the fee arithmetic over all percentages
\* tokenAmount.substractAndGetPercentage(p) on its own: the amount keeps the
\* remainder and the fee is returned.
SubstractAndGetPercentage(t, ta) ==
  /\ pc[t] = "idle"
  /\ call' = [call EXCEPT ![t] =
       [NoCall EXCEPT !.op = "substractAndGetPercentage", !.requested = ta,
                      !.tokenAmount = AfterPercentage(ta, config.fees),
                      !.userBalance = <<PercentageOf(ta, config.fees)>>]]
  /\ outcome' = [outcome EXCEPT ![t] = ResolvedBalance(<<PercentageOf(ta, config.fees)>>)]
  /\ pc' = [pc EXCEPT ![t] = "done"]
  /\ UNCHANGED <<regVars, opVars>>

\* Every fee percentage, with no minimal withdrawal above zero.
Percentages == 0..100
FeeConfigs == {[DefaultConfig EXCEPT !.fees = p, !.strictMinimalWithdrawalAmount = 0] : p \in Percentages}
Amounts == {TokenAmount(a, tk) : a \in 0..MaxAmount, tk \in {ALPH, TOK}}

InitFee ==
  /\ userStore = RegisteredUsers
  /\ nextId = 3
  /\ registerMutex = {}
  /\ deletionMutex = {}
  /\ removing = {}
  /\ removedIds = {}
  /\ pc = [t \in Tasks |-> "idle"]
  /\ call = [t \in Tasks |-> NoCall]
  /\ outcome = [t \in Tasks |-> Pending]
  /\ config \in FeeConfigs
  /\ leavingIntentions = {}
  /\ log = [t \in Tasks |-> <<>>]
  /\ txCount = 0

NextFee ==
  \/ \E ta \in Amounts : SubstractAndGetPercentage(Caller, ta)
  \/ \E user \in userStore, ta \in Amounts :
       WithdrawCall(Caller, user, ta, addressesByGroup(user.id % 2), FALSE)

SpecFee == InitFee /\ [][NextFee]_vars

\* ------------------------------------------------------------------ money operations next to registration and deletion
\* One user's transfers, withdrawals and sweeps, issued by any task while
\* other tasks register a new identity or delete a record.
MixUser == RegisteredUser(1)
MixDestination == [alphabetOk |-> TRUE, payloadLen |-> 32, key |-> 900]
MixBalance == [balance |-> 3001, tokenBalances |-> <<>>, utxoNum |-> 1]

InitMix ==
  /\ userStore = RegisteredUsers
  /\ nextId = 3
  /\ registerMutex = {}
  /\ deletionMutex = {}
  /\ removing = {}
  /\ removedIds = {}
  /\ pc = [t \in Tasks |-> "idle"]
  /\ call = [t \in Tasks |-> NoCall]
  /\ outcome = [t \in Tasks |-> Pending]
  /\ config = [DefaultConfig EXCEPT !.fees = 10]
  /\ leavingIntentions = {}
  /\ log = [t \in Tasks |-> <<>>]
  /\ txCount = 0

\* Three commands run at once: the first task's money operation, a second
\* task's money operation, registration or deletion, and a third task's
\* registration or deletion; any further task only runs a detached
\* consolidation.
Commands == {t \in Tasks : t <= 3}
MoneyCommands == {t \in Tasks : t <= 2}

NextMix ==
  \/ \E t \in MoneyCommands : TransferCall(t, MixUser, MixUser, TokenAmount(5, ALPH), FALSE)
  \/ \E t \in MoneyCommands : WithdrawCall(t, MixUser, TokenAmount(2001, ALPH), MixDestination, FALSE)
  \/ SweepAllCall(Caller, MixUser, MixDestination, FALSE, MixBalance)
  \/ \E t \in Commands \ {Caller} : RegisterCall(t, 103)
  \/ \E t \in Commands \ {Caller}, user \in userStore : DeleteCall(t, user)
  \/ \E t \in Tasks :
       \/ TransferSubmit(t)
       \/ TransferWait(t)
       \/ WithdrawSubmit(t)
       \/ WithdrawWait(t)
       \/ SweepAllBalance(t)
       \/ SweepAllFeeSubmit(t)
       \/ SweepAllFeeWait(t)
       \/ SweepAllWait(t)
       \/ SweepBuild(t)
       \/ SweepSubmit(t)
       \/ ConsolidateBalance(t)
       \/ RegisterAcquire(t)
       \/ RegisterExistsBy(t)
       \/ RegisterInsert(t)
       \/ RegisterSaveAddress(t)
       \/ DeleteExclusive(t)
       \/ DeleteRelease(t)
  \/ \E r \in removing : StoreRemoveDone(r)

SpecMix == InitMix /\ [][NextMix]_vars

\* ------------------------------------------------------------------ bot commands (telegram.ts)
\* ctx.botInfo.id: the bot's own Telegram identity.
BotId == 100

\* userRepository.findOneBy({ telegramId }): the record, or null (the empty set).
getUserFromTgId(store, telegramId) == {u \in store : u.telegramId = telegramId}

NoUpdate == NoCall.update

\* The updates the bot receives: /start from a user, /tip in reply to a
\* message of `replyTo`, /forgetme with no good-bye string, with a wrong one
\* or with the right one (GoodBye-From-<username>).
Updates ==
  {[NoUpdate EXCEPT !.command = "start", !.from = tid] : tid \in TelegramIds}
  \cup {[NoUpdate EXCEPT !.command = "tip", !.from = 101, !.replyTo = 102]}
  \cup {[NoUpdate EXCEPT !.command = "forgetme", !.from = tid, !.goodBye = g] :
          tid \in TelegramIds, g \in {"none", "wrong", "right"}}

\* A handler that has finished without calling the orchestrator.
Ended(upd, how, fetched) ==
  [NoCall EXCEPT !.command = upd.command, !.update = upd, !.ended = how, !.fetched = fetched]

\* alphClient.registerUser(new User(telegramId, username)) issued by a handler.
RegisterFrom(command, upd, telegramId) ==
  [NoCall EXCEPT !.op = "registerUser", !.command = command, !.update = upd,
                 !.user = NewUser(telegramId),
                 !.absentAtCall = ~existsBy(userStore, telegramId)]

\* startFct: the greeting, then registerUser for the sender.
startFct(t, upd) ==
  /\ pc' = [pc EXCEPT ![t] = "r_wait"]
  /\ call' = [call EXCEPT ![t] = RegisterFrom("start", upd, upd.from)]

\* tipFct, by reply: an unregistered sender is turned away; a receiver
\* without a record is registered on the spot.
tipFct(t, upd) ==
  LET sender == getUserFromTgId(userStore, upd.from)
      receiver == getUserFromTgId(userStore, upd.replyTo) IN
  IF sender = {}
    THEN /\ pc' = [pc EXCEPT ![t] = "done"]
         /\ call' = [call EXCEPT ![t] = Ended(upd, "error", {})]
    ELSE IF receiver # {}
      THEN /\ pc' = [pc EXCEPT ![t] = "done"]
           /\ call' = [call EXCEPT ![t] = Ended(upd, "continued", receiver)]
      ELSE /\ pc' = [pc EXCEPT ![t] = "r_wait"]
           /\ call' = [call EXCEPT ![t] = RegisterFrom("tip", upd, upd.replyTo)]

\* forgetmeFct: const user = await getUserFromTgId(ctx.message.from.id); without
\* an account the command ends, else it goes on to ask the leaving service.
forgetmeFct(t, upd) ==
  LET user == getUserFromTgId(userStore, upd.from) IN
  IF user = {}
    THEN /\ pc' = [pc EXCEPT ![t] = "done"]
         /\ call' = [call EXCEPT ![t] = Ended(upd, "error", user)]
    ELSE /\ pc' = [pc EXCEPT ![t] = "f_check"]
         /\ call' = [call EXCEPT ![t] =
              [NoCall EXCEPT !.command = "forgetme", !.update = upd, !.fetched = user,
                             !.user = CHOOSE v \in user : TRUE]]

\* Mutant: any good-bye string confirms.
ForgetmeCheck_AnyString(t) ==
  LET previouslyRegistered == call[t].user.id \in leavingIntentions
      upd == [call[t].update EXCEPT !.previouslyRegistered = previouslyRegistered] IN
  /\ pc[t] = "f_check"
  /\ IF ~previouslyRegistered
       THEN IF upd.goodBye # "none"
         THEN /\ pc' = [pc EXCEPT ![t] = "done"]
              /\ call' = [call EXCEPT ![t] = Ended(upd, "usage", call[t].fetched)]
              /\ UNCHANGED leavingIntentions
         ELSE /\ pc' = [pc EXCEPT ![t] = "f_register"]
              /\ call' = [call EXCEPT ![t].update = upd]
              /\ UNCHANGED leavingIntentions
       ELSE IF upd.goodBye # "none"
         THEN /\ pc' = [pc EXCEPT ![t] = "f_remove"]
              /\ call' = [call EXCEPT ![t].update = upd]
              /\ UNCHANGED leavingIntentions
         ELSE /\ pc' = [pc EXCEPT ![t] = "done"]
              /\ call' = [call EXCEPT ![t] = Ended(upd, "intentionRemoved", call[t].fetched)]
              /\ leavingIntentions' = leavingIntentions \ {call[t].user.id}
  /\ UNCHANGED <<regVars, outcome, config, log, txCount>>

\* const previouslyRegistered = await leavingService.didUserAlreadyRegisteredIntention(user),
\* then the branches: without an intention, a message with a string gets the
\* usage text and one without goes on to register the intention; with an
\* intention, the right string goes on to the deletion and any other message
\* has the intention removed (a call that is not awaited).
ForgetmeCheck(t) ==
  LET previouslyRegistered == call[t].user.id \in leavingIntentions
      upd == [call[t].update EXCEPT !.previouslyRegistered = previouslyRegistered] IN
  /\ pc[t] = "f_check"
  /\ IF ~previouslyRegistered
       THEN IF upd.goodBye # "none"
         THEN /\ pc' = [pc EXCEPT ![t] = "done"]
              /\ call' = [call EXCEPT ![t] = Ended(upd, "usage", call[t].fetched)]
              /\ UNCHANGED leavingIntentions
         ELSE /\ pc' = [pc EXCEPT ![t] = "f_register"]
              /\ call' = [call EXCEPT ![t].update = upd]
              /\ UNCHANGED leavingIntentions
       ELSE IF upd.goodBye = "right"
         THEN /\ pc' = [pc EXCEPT ![t] = "f_remove"]
              /\ call' = [call EXCEPT ![t].update = upd]
              /\ UNCHANGED leavingIntentions
         ELSE /\ pc' = [pc EXCEPT ![t] = "done"]
              /\ call' = [call EXCEPT ![t] = Ended(upd, "intentionRemoved", call[t].fetched)]
              /\ leavingIntentions' = leavingIntentions \ {call[t].user.id}
  /\ UNCHANGED <<regVars, outcome, config, log, txCount>>

\* await leavingService.registerLeavingIntention(user), then the message that
\* asks for the confirmation.
ForgetmeRegister(t) ==
  /\ pc[t] = "f_register"
  /\ leavingIntentions' = leavingIntentions \cup {call[t].user.id}
  /\ pc' = [pc EXCEPT ![t] = "done"]
  /\ call' = [call EXCEPT ![t] = Ended(call[t].update, "intentionRegistered", call[t].fetched)]
  /\ UNCHANGED <<regVars, outcome, config, log, txCount>>

\* await leavingService.removeUserLeavingIntention(user), then
\* alphClient.emptyWalletForDeletion(user) is called.
ForgetmeRemove(t) ==
  /\ pc[t] = "f_remove"
  /\ leavingIntentions' = leavingIntentions \ {call[t].user.id}
  /\ pc' = [pc EXCEPT ![t] = "sw_build"]
  /\ call' = [call EXCEPT ![t].op = "emptyWalletForDeletion",
                          ![t].wallet = getUserWallet(call[t].user),
                          ![t].dest = addressesByGroup(0)]
  /\ UNCHANGED <<regVars, outcome, config, log, txCount>>

\* next(): the command handler of the update.
Handle(t, upd) ==
  CASE upd.command = "start" -> startFct(t, upd)
    [] upd.command = "tip" -> tipFct(t, upd)
    [] upd.command = "forgetme" -> forgetmeFct(t, upd)

\* bot.use(...): every update first goes through the self-registration
\* middleware, which registers the bot when the store is empty.
UpdateArrives(t, upd) ==
  /\ pc[t] = "idle"
  /\ IF Cardinality(userStore) = 0
       THEN /\ pc' = [pc EXCEPT ![t] = "r_wait"]
            /\ call' = [call EXCEPT ![t] = RegisterFrom("middleware", upd, BotId)]
       ELSE Handle(t, upd)
  /\ UNCHANGED <<regVars, outcome, opVars>>

\* The middleware's await of registerUser: next() when it resolved; a
\* rejection leaves the middleware and the update is not handled.
MiddlewareSettled(t) ==
  /\ pc[t] = "done"
  /\ call[t].command = "middleware"
  /\ call[t].ended = ""
  /\ IF outcome[t].status = "resolved"
       THEN /\ Handle(t, call[t].update)
            /\ outcome' = [outcome EXCEPT ![t] = Pending]
       ELSE /\ call' = [call EXCEPT ![t].ended = "threw"]
            /\ UNCHANGED <<pc, outcome>>
  /\ UNCHANGED <<regVars, opVars>>

\* startFct's .then and .catch: the new record, or for
\* USER_ALREADY_REGISTERED the record getUserFromTgId finds; null ends the
\* command with an error message.
StartSettled(t) ==
  LET user == IF outcome[t].status = "resolved" THEN {outcome[t].user}
              ELSE IF outcome[t].error = USER_ALREADY_REGISTERED
                THEN getUserFromTgId(userStore, call[t].update.from)
              ELSE {} IN
  /\ pc[t] = "done"
  /\ call[t].command = "start"
  /\ call[t].ended = ""
  /\ call' = [call EXCEPT ![t].fetched = user,
                          ![t].ended = IF user = {} THEN "error" ELSE "continued"]
  /\ UNCHANGED <<regVars, pc, outcome, opVars>>

\* tipFct's try / catch around registerUser: the tip goes on with the new
\* record; any rejection ends the command with an error message.
TipSettled(t) ==
  /\ pc[t] = "done"
  /\ call[t].command = "tip"
  /\ call[t].ended = ""
  /\ IF outcome[t].status = "resolved"
       THEN call' = [call EXCEPT ![t].fetched = {outcome[t].user}, ![t].ended = "continued"]
       ELSE call' = [call EXCEPT ![t].ended = "error"]
  /\ UNCHANGED <<regVars, pc, outcome, opVars>>

\* Mutant: the deletion goes on whatever became of the sweep.
ForgetmeProceeds_Always(t) == TRUE

\* const txs = await alphClient.emptyWalletForDeletion(user): the handler
\* goes on only when the promise resolved.
ForgetmeProceeds(t) == outcome[t].status = "resolved"

\* await alphClient.deleteUser(user), after the sweep.
ForgetmeDelete(t) ==
  /\ pc[t] = "done"
  /\ call[t].command = "forgetme"
  /\ call[t].op = "emptyWalletForDeletion"
  /\ ForgetmeProceeds(t)
  /\ pc' = [pc EXCEPT ![t] = "d_wait"]
  /\ call' = [call EXCEPT ![t].op = "deleteUser"]
  /\ outcome' = [outcome EXCEPT ![t] = Pending]
  /\ UNCHANGED <<regVars, opVars>>

\* ctx.sendMessage("...deleted..."), once deleteUser resolved.
ForgetmeDone(t) ==
  /\ pc[t] = "done"
  /\ call[t].command = "forgetme"
  /\ call[t].op = "deleteUser"
  /\ call[t].ended = ""
  /\ call' = [call EXCEPT ![t].ended = "deleted"]
  /\ UNCHANGED <<regVars, pc, outcome, opVars>>

\* A fresh deployment, or one where the first user is registered.
InitBot ==
  /\ userStore \in {{}, {RegisteredUser(1)}}
  /\ nextId = Cardinality(userStore) + 1
  /\ registerMutex = {}
  /\ deletionMutex = {}
  /\ removing = {}
  /\ removedIds = {}
  /\ pc = [t \in Tasks |-> "idle"]
  /\ call = [t \in Tasks |-> NoCall]
  /\ outcome = [t \in Tasks |-> Pending]
  /\ config = DefaultConfig
  /\ leavingIntentions \in SUBSET {u.id : u \in userStore}
  /\ log = [t \in Tasks |-> <<>>]
  /\ txCount = 0

\* One /forgetme is handled at a time, by the first task, next to the
\* registering commands of the others.
UpdatesOf(t) == {upd \in Updates : upd.command = "forgetme" <=> t = Caller}

NextBot ==
  \/ \E t \in Commands : \E upd \in UpdatesOf(t) : UpdateArrives(t, upd)
  \/ \E t \in Tasks :
       \/ MiddlewareSettled(t)
       \/ StartSettled(t)
       \/ TipSettled(t)
       \/ ForgetmeCheck(t)
       \/ ForgetmeRegister(t)
       \/ ForgetmeRemove(t)
       \/ ForgetmeDelete(t)
       \/ ForgetmeDone(t)
       \/ RegisterAcquire(t)
       \/ RegisterExistsBy(t)
       \/ RegisterInsert(t)
       \/ RegisterSaveAddress(t)
       \/ SweepBuild(t)
       \/ SweepSubmit(t)
       \/ DeleteExclusive(t)
       \/ DeleteRelease(t)
  \/ \E r \in removing : StoreRemoveDone(r)

SpecBot == InitBot /\ [][NextBot]_vars

\* The /forgetme messages of one user, handled concurrently, next to a tip
\* another user sends them in reply to one of their messages.
SpecLeave ==
  /\ InitMix
  /\ [][
      \/ \E t \in Tasks, g \in {"none", "wrong", "right"} :
           UpdateArrives(t, [NoUpdate EXCEPT !.command = "forgetme", !.from = 102, !.goodBye = g])
      \/ \E t \in Tasks, receiver \in getUserFromTgId(userStore, 102) :
           TransferCall(t, RegisteredUser(1), receiver, TokenAmount(5, ALPH), TRUE)
      \/ \E t \in Tasks :
           \/ ForgetmeCheck(t)
           \/ ForgetmeRegister(t)
           \/ ForgetmeRemove(t)
           \/ SweepBuild(t)
           \/ SweepSubmit(t)
           \/ ForgetmeDelete(t)
           \/ DeleteExclusive(t)
           \/ DeleteRelease(t)
           \/ ForgetmeDone(t)
           \/ TransferSubmit(t)
           \/ TransferWait(t)
           \/ ConsolidateBalance(t)
      \/ \E r \in removing : StoreRemoveDone(r)
     ]_vars

\* ------------------------------------------------------------------ outcome of a tip and of a withdrawal (telegram.ts)
\* tipFct: alphClient.transferFromUserToUser(sender, receiver, tokenAmount, txStatus)
\* .then(txId => txStatus.setConfirmed().setTransactionId(txId).displayUpdate() ...)
\* .catch(err => { ...; txStatus.setFailed().displayUpdate(); })
TipOutcome(t) ==
  /\ pc[t] = "done"
  /\ call[t].op = "transferFromUserToUser"
  /\ call[t].hasStatus
  /\ call[t].ended = ""
  /\ IF outcome[t].status = "resolved"
       THEN /\ log' = [log EXCEPT ![t] = Append(@,
                 [LogEntry("txStatus.setConfirmed", TRUE) EXCEPT !.txId = outcome[t].txId])]
            /\ call' = [call EXCEPT ![t].ended = "confirmed"]
       ELSE /\ log' = [log EXCEPT ![t] = Append(@, LogEntry("txStatus.setFailed", TRUE))]
            /\ call' = [call EXCEPT ![t].ended = "failed"]
  /\ UNCHANGED <<regVars, pc, outcome, config, leavingIntentions, txCount>>

\* withdrawFct: promisedWithdrawalTxString.then(txId => txStatus.setConfirmed() ...)
\* .catch(err => { ...; txStatus.setFailed().displayUpdate(); }). The handler's
\* tokenAmount is assigned on the path of sendAmountToAddressFrom only; the
\* NotEnoughFundsError branch of the catch reads tokenAmount.token, which
\* throws on the withdraw-all path before setFailed is reached.
WithdrawOutcome(t) ==
  /\ pc[t] = "done"
  /\ call[t].op \in {"sendAmountToAddressFrom", "takeFeesAndSweepWalletFromUserTo"}
  /\ call[t].hasStatus
  /\ call[t].ended = ""
  /\ IF outcome[t].status = "resolved"
       THEN /\ log' = [log EXCEPT ![t] = Append(@,
                 [LogEntry("txStatus.setConfirmed", TRUE) EXCEPT !.txId = outcome[t].txId])]
            /\ call' = [call EXCEPT ![t].ended = "confirmed"]
       ELSE IF /\ outcome[t].error.kind = "NotEnoughFundsError"
               /\ call[t].op = "takeFeesAndSweepWalletFromUserTo"
         THEN /\ call' = [call EXCEPT ![t].ended = "threw"]
              /\ UNCHANGED log
         ELSE /\ log' = [log EXCEPT ![t] = Append(@, LogEntry("txStatus.setFailed", TRUE))]
              /\ call' = [call EXCEPT ![t].ended = "failed"]
  /\ UNCHANGED <<regVars, pc, outcome, config, leavingIntentions, txCount>>

\* The orchestrator calls of the tip and withdraw commands, with the
\* handlers' continuations on their promises.
SpecStatus ==
  InitOps /\ [][NextOps \/ TipOutcome(Caller) \/ WithdrawOutcome(Caller)]_vars

\* ------------------------------------------------------------------ specification
Init ==
  /\ userStore = {}
  /\ nextId = 1
  /\ registerMutex = {}
  /\ deletionMutex = {}
  /\ removing = {}
  /\ removedIds = {}
  /\ pc = [t \in Tasks |-> "idle"]
  /\ call = [t \in Tasks |-> NoCall]
  /\ outcome = [t \in Tasks |-> Pending]
  /\ config = DefaultConfig
  /\ leavingIntentions = {}
  /\ log = [t \in Tasks |-> <<>>]
  /\ txCount = 0

Next ==
  \/ \E t \in Tasks, tid \in TelegramIds : RegisterCall(t, tid)
  \/ \E t \in Tasks : RegisterAcquire(t)
  \/ \E t \in Tasks : RegisterExistsBy(t)
  \/ \E t \in Tasks : RegisterInsert(t)
  \/ \E t \in Tasks : RegisterSaveAddress(t)
  \/ \E t \in Tasks, user \in userStore : DeleteCall(t, user)
  \/ \E t \in Tasks : DeleteExclusive(t)
  \/ \E t \in Tasks : DeleteRelease(t)
  \/ \E r \in removing : StoreRemoveDone(r)

Spec == Init /\ [][Next]_vars

\* Mutant: a failed persistence call leaves registerMutex held.
RegisterStoreFails_KeepsLock(t) ==
  /\ pc[t] \in {"r_exists", "r_insert", "r_saveAddr"}
  /\ call' = [call EXCEPT ![t].failedAt = pc[t]]
  /\ outcome' = [outcome EXCEPT ![t] =
       Rejected(RawError([instanceOfError |-> TRUE, message |-> "unrecognised"]))]
  /\ pc' = [pc EXCEPT ![t] = "done"]
  /\ UNCHANGED <<userStore, nextId, registerMutex, deletionMutex, removing, removedIds, config, leavingIntentions, log, txCount>>

\* A store whose calls may fail: the awaited existsBy or save rejects, the
\* callback of runExclusive rejects with that error and the mutex is released;
\* what earlier saves of the call wrote stays written.
RegisterStoreFails(t) ==
  /\ pc[t] \in {"r_exists", "r_insert", "r_saveAddr"}
  /\ call' = [call EXCEPT ![t].failedAt = pc[t]]
  /\ outcome' = [outcome EXCEPT ![t] =
       Rejected(RawError([instanceOfError |-> TRUE, message |-> "unrecognised"]))]
  /\ registerMutex' = registerMutex \ {t}
  /\ pc' = [pc EXCEPT ![t] = "done"]
  /\ UNCHANGED <<userStore, nextId, deletionMutex, removing, removedIds, config, leavingIntentions, log, txCount>>

NextFaults ==
  \/ Next
  \/ \E t \in Tasks : RegisterStoreFails(t)

SpecFaults == Init /\ [][NextFaults]_vars

\* The same with a store whose calls return, with a result or a failure, and
\* the mutex's queue of waiters: a callback that waits in runExclusive is
\* started after the releases of the callbacks queued before it.
SpecFaultsLive ==
  /\ SpecFaults
  /\ \A t \in Tasks :
       /\ SF_vars(RegisterAcquire(t))
       /\ WF_vars(RegisterExistsBy(t) \/ RegisterInsert(t) \/ RegisterSaveAddress(t)
                    \/ RegisterStoreFails(t))

\* ------------------------------------------------------------------ claims: registration and deletion
\* The registerUser calls for one identity that were issued while the store
\* held no record of it: they are concurrent, none was issued after another's insert.
RegisterCohort(tid) ==
  {t \in Tasks : /\ call[t].op = "registerUser"
                 /\ call[t].user.telegramId = tid
                 /\ call[t].absentAtCall}

InRegisterSection(t) == pc[t] \in {"r_exists", "r_insert", "r_saveAddr"}

\* C1: of the registerUser calls issued concurrently for one identity that is
\* not yet in the store, exactly one resolves with a user record, every other
\* rejects with AlreadyRegistered, and the store ends with exactly one record
\* of that identity (no record of it having been deleted meanwhile).
C1_SameIdentityOneWinner ==
  \A tid \in TelegramIds :
    LET cohort == RegisterCohort(tid) IN
    (/\ Cardinality(cohort) >= 2
     /\ \A t \in cohort : pc[t] = "done"
     /\ tid \notin removedIds)
    => /\ Cardinality({t \in cohort : outcome[t].status = "resolved"}) = 1
       /\ \A t \in cohort :
            \/ /\ outcome[t].status = "resolved"
               /\ outcome[t].user \in userStore
               /\ outcome[t].user.telegramId = tid
            \/ /\ outcome[t].status = "rejected"
               /\ outcome[t].error = USER_ALREADY_REGISTERED
       /\ Cardinality({u \in userStore : u.telegramId = tid}) = 1

C1_Witness ==
  \E tid \in TelegramIds : \E t1, t2 \in RegisterCohort(tid) :
    /\ t1 # t2
    /\ tid \notin removedIds
    /\ outcome[t1].status = "resolved"
    /\ outcome[t2].status = "rejected"

\* C2: at most one registerUser call is between its existence check and its
\* final save, whatever the number of concurrent callers.
C2_OneRegistrationInSection ==
  Cardinality({t \in Tasks : InRegisterSection(t)}) <= 1

C2_Witness ==
  \E t1, t2, t3 \in Tasks :
    /\ t1 # t2 /\ t2 # t3 /\ t1 # t3
    /\ pc[t1] = "r_saveAddr"
    /\ pc[t2] = "r_wait"
    /\ pc[t3] = "r_wait"

\* C3: a remove started by a deleteUser completes while that call still holds
\* the deletion lock, so at most one remove is in progress and none is in
\* progress once the lock is free or held by another call.
C3_RemoveCompletesUnderLock ==
  /\ Cardinality(removing) <= 1
  /\ \A r \in removing : deletionMutex = {r.task}

\* ------------------------------------------------------------------ claims: orchestrator calls
Settled(t) == pc[t] = "done"

\* The failure went through adaptError once, in the operation's own catch.
RanClassifier(t) ==
  /\ call[t].op \in {"transferFromUserToUser", "sendAmountToAddressFrom",
                     "takeFeesAndSweepWalletFromUserTo", "emptyWalletForDeletion"}
  /\ call[t].failedAt \in {"submit", "sweepBuild", "sweepSubmit"}

\* The raw failure has none of the shapes the classifier looks for.
MatchesNoPattern(raw) ==
  ~(raw.instanceOfError /\ ShapesOf(raw.message) \cap
      {"fetch failed", "IOFailure", "AmountOverflow", "NotEnoughFunds",
       "NotEnoughBalanceForFee", "NotEnoughApprovedBalance",
       "NotEnoughALPHForTransactionOutput", "NotEnoughALPHForALPHAndTokenChangeOutput"} # {})

\* C5: when a gateway failure matches none of the classifier's patterns, the
\* operation rejects with that same raw error, unchanged.
C5_UnmatchedPassesThrough ==
  \A t \in Tasks :
    (Settled(t) /\ RanClassifier(t) /\ MatchesNoPattern(call[t].raw))
      => outcome[t] = Rejected(RawError(call[t].raw))

\* C6: no operation rejects with the raw transport error: whichever gateway
\* call fails with a transport failure, the caller receives a NetworkError.
C6_TransportFailureIsNetworkError ==
  \A t \in Tasks :
    (Settled(t) /\ call[t].raw.instanceOfError /\ call[t].raw.message = "fetch failed")
      => outcome[t] = Rejected(DomainError("NetworkError", call[t].raw))

\* The kind documented for each raw shape.
DocumentedKind(message) ==
  CASE message = "fetch failed" -> "NetworkError"
    [] message = "IOFailure" -> "AlphApiIOError"
    [] message = "AmountOverflow" -> "AlphAmountOverflowError"
    [] message = "NotEnoughFunds" -> "NotEnoughFundsError"
    [] message = "NotEnoughBalanceForFee" -> "NotEnoughBalanceForFeeError"
    [] message = "NotEnoughApprovedBalance" -> "NotEnoughApprovedBalanceForAddressError"
    [] message = "NotEnoughALPHForTransactionOutput" -> "NotEnoughALPHForTransactionOutputError"
    [] message = "NotEnoughALPHForALPHAndTokenChangeOutput"
         -> "NotEnoughALPHForALPHAndTokenChangeOutputError"
    [] message = "NotEnoughALPHForTokenChangeOutput" -> "NotEnoughALPHForTokenChangeOutputError"
    [] OTHER -> "raw"

\* C7: each documented raw-error shape is classified to exactly its kind.
C7_ShapeClassifiedToItsKind ==
  \A t \in Tasks :
    (/\ Settled(t) /\ RanClassifier(t)
     /\ call[t].raw.instanceOfError
     /\ call[t].raw.message \in RawShapes \ {"unrecognised"})
      => outcome[t] = Rejected(DomainError(DocumentedKind(call[t].raw.message), call[t].raw))

\* The destination is malformed: a character outside the alphabet, or a
\* payload that is too short.
SyntacticallyInvalid(address) == ~address.alphabetOk \/ address.payloadLen < 32

Detached == {s \in Tasks : call[s].detached}

\* C8: sendAmountToAddressFrom with a syntactically invalid destination rejects
\* with InvalidAddress and makes no gateway call: no wallet is derived, nothing
\* is built, submitted or waited for, and no consolidation is started.
C8_InvalidAddressNoNetwork ==
  \A t \in Tasks :
    (call[t].op = "sendAmountToAddressFrom" /\ SyntacticallyInvalid(call[t].dest))
      => /\ Settled(t)
         /\ outcome[t] = Rejected(InvalidAddressError)
         /\ log[t] = <<>>
         /\ call[t].wallet = NoWallet
         /\ Detached = {}

C8_Witness ==
  \E t \in Tasks :
    /\ call[t].op = "sendAmountToAddressFrom"
    /\ ~call[t].dest.alphabetOk
    /\ outcome[t] = Rejected(InvalidAddressError)

\* The requested amount is at or below the minimal withdrawal, both in
\* smallest units.
AtOrBelowMinimal(ta, minimal) == ta.amount <= minimal * Pow10(ta.token.decimals)

AtOrBelowSweepAll(t) ==
  call[t].nodeBalance.balance <= config.strictMinimalWithdrawalAllAmount * Pow10(ALPH.decimals)

\* C10 as stated: takeFeesAndSweepWalletFromUserTo on a wallet whose native
\* balance is at or below the sweep-all threshold rejects with
\* TooSmallWithdrawal and submits no transaction.
C10_Original ==
  \A t \in Tasks :
    (/\ call[t].op = "takeFeesAndSweepWalletFromUserTo"
     /\ ~SyntacticallyInvalid(call[t].dest)
     /\ AtOrBelowSweepAll(t))
      => /\ Submissions(t) = <<>>
         /\ Settled(t) => outcome[t] = Rejected(TooSmallALPHWithdrawalError)

\* C10 (amended): with a fee percentage above zero, the call on such a wallet
\* submits no transaction, neither fee nor sweep, and rejects with
\* TooSmallWithdrawal once the balance query has answered (with the
\* classified failure of the balance query when that query fails).
C10_TooSmallToSweepWithFees ==
  \A t \in Tasks :
    (/\ call[t].op = "takeFeesAndSweepWalletFromUserTo"
     /\ ~SyntacticallyInvalid(call[t].dest)
     /\ config.fees > 0
     /\ AtOrBelowSweepAll(t))
      => /\ Submissions(t) = <<>>
         /\ Settled(t) =>
              \/ outcome[t] = Rejected(TooSmallALPHWithdrawalError)
              \/ /\ call[t].failedAt = "balance"
                 /\ outcome[t] = Rejected(adaptBalanceError(call[t].raw))

C10_Witness ==
  \E t \in Tasks :
    /\ call[t].op = "takeFeesAndSweepWalletFromUserTo"
    /\ config.fees > 0
    /\ call[t].nodeBalance.balance = 3000
    /\ config.strictMinimalWithdrawalAllAmount = 3
    /\ Len(GatewayCalls(t)) = 1
    /\ outcome[t] = Rejected(TooSmallALPHWithdrawalError)

\* ------------------------------------------------------------------ claims: the aggregate
RECURSIVE AmountOf(_, _)
AmountOf(balance, tokenId) ==
  IF balance = <<>> THEN 0
  ELSE (IF Head(balance).token.id = tokenId THEN Head(balance).amount ELSE 0)
         + AmountOf(Tail(balance), tokenId)

\* The balances of all registered users, summed in one pass.
RECURSIVE OnePass(_, _, _)
OnePass(users, ledger, tokenId) ==
  IF users = <<>> THEN 0
  ELSE AmountOf(convertAddressBalanceToUserBalance(ledger[Head(users).id]), tokenId)
         + OnePass(Tail(users), ledger, tokenId)

BalanceQueriesOf(t, address) ==
  Len(SelectSeq(log[t], LAMBDA e : e.api = "getAddressesAddressBalance" /\ e.toAddress = address))

\* C4: getTotalTokenAmount returns the per-asset totals of summing every
\* registered user's balance in one pass: each user is counted exactly once.
C4_TotalCountsEveryUserOnce ==
  \A t \in Tasks :
    (call[t].op = "getTotalTokenAmount" /\ outcome[t].status = "resolved")
      => /\ \A tokenId \in {ALPH.id, TOK.id} :
              AmountOf(outcome[t].balance, tokenId)
                = OnePass(UsersById(userStore), call[t].ledger, tokenId)
         /\ \A u \in userStore : BalanceQueriesOf(t, u.address) = 1

\* ------------------------------------------------------------------ claims: the fee stage
TransferSubmissions(t) ==
  SelectSeq(log[t], LAMBDA e : e.ok /\ e.api = "signAndSubmitTransferTx")

FloorPercent(a, p) == (a * p) \div 100

\* The call is a sweep-all with fees configured, a valid destination and a
\* native balance above the threshold.
FeeStageApplies(t) ==
  /\ call[t].op = "takeFeesAndSweepWalletFromUserTo"
  /\ ~SyntacticallyInvalid(call[t].dest)
  /\ config.fees > 0
  /\ ~AtOrBelowSweepAll(t)

\* The entry is one output to the fee address of the wallet's group, with the
\* floored native fee and exactly the floored fees of the assets `held`.
IsFeeTransaction(e, t, held) ==
  /\ Len(e.destinations) = 1
  /\ e.destinations[1].address = addressesByGroup(call[t].wallet.group)
  /\ e.destinations[1].attoAlphAmount = FloorPercent(call[t].nodeBalance.balance, config.fees)
  /\ Len(e.destinations[1].tokens) = Len(held)
  /\ \A i \in 1..Len(held) : \E j \in 1..Len(e.destinations[1].tokens) :
       e.destinations[1].tokens[j]
         = [id |-> held[i].id, amount |-> FloorPercent(held[i].amount, config.fees)]

FeeStageSubmitsOne(t, held) ==
  /\ Len(TransferSubmissions(t)) <= 1
  /\ call[t].newTx # 0 => Len(TransferSubmissions(t)) = 1
  /\ \A i \in 1..Len(TransferSubmissions(t)) : IsFeeTransaction(TransferSubmissions(t)[i], t, held)

\* C11 as stated: the fee stage submits exactly one transaction, to the fee
\* address of the wallet's group, with floor(native balance * p / 100) and,
\* for every non-native asset the address holds, floor(asset balance * p / 100).
C11_Original ==
  \A t \in Tasks :
    FeeStageApplies(t) => FeeStageSubmitsOne(t, call[t].nodeBalance.tokenBalances)

\* C11 (amended): as above, for every held non-native asset the token
\* registry recognises; an asset it does not recognise is left out of the
\* fee transaction.
C11_FeeTransactionAmounts ==
  \A t \in Tasks :
    FeeStageApplies(t) =>
      FeeStageSubmitsOne(t, SelectSeq(call[t].nodeBalance.tokenBalances,
                                      LAMBDA tb : registryRecognises(tb.id)))

C11_Witness ==
  \E t \in Tasks :
    /\ FeeStageApplies(t)
    /\ call[t].nodeBalance.balance = 3001
    /\ call[t].nodeBalance.tokenBalances # <<>>
    /\ config.fees = 10
    /\ Len(TransferSubmissions(t)) = 1
    /\ TransferSubmissions(t)[1].destinations[1].attoAlphAmount = 300

\* ------------------------------------------------------------------ claims: the fee arithmetic
\* What an output carries of the asset `token`.
Carried(d, token) ==
  IF isALPH(token) THEN d.attoAlphAmount
  ELSE IF d.tokens = <<>> THEN 0 ELSE d.tokens[1].amount

ConfirmedWait(t) ==
  \E i \in 1..Len(log[t]) : log[t][i].api = "waitForTxConfirmation" /\ log[t][i].ok

\* C13: once the confirmation wait of a transfer or a withdrawal has
\* succeeded, the call has resolved with the submitted transaction id, in
\* every state of the consolidation tasks it started: not yet answered,
\* resolved or rejected.
C13_OutcomeIgnoresConsolidation ==
  \A t \in Tasks :
    (call[t].op \in {"transferFromUserToUser", "sendAmountToAddressFrom"} /\ ConfirmedWait(t))
      => /\ Settled(t)
         /\ Len(TransferSubmissions(t)) = 1
         /\ outcome[t] = Resolved(NewUser(0), TransferSubmissions(t)[1].txId)

\* A transfer has resolved while one consolidation it started has rejected
\* and the other has not answered yet.
C13_Witness ==
  \E t \in Tasks :
    /\ call[t].op = "transferFromUserToUser"
    /\ outcome[t].status = "resolved"
    /\ \E s \in Detached : outcome[s].status = "rejected"
    /\ \E s \in Detached : pc[s] = "c_balance"

\* ------------------------------------------------------------------ claims: locks and confirmation waits
WaitingForConfirmation(t) == pc[t] \in {"t_wait", "w_wait", "s_feeWait", "s_wait"}

\* C14: a call blocked in its confirmation wait holds neither lock, and next
\* to it every other task can go on: start a registration, a deletion, a
\* transfer or a withdrawal (also of the same user), take the registration or
\* deletion lock unless another registration or deletion holds it, and submit.
C14_NoLockAcrossWait ==
  \A t \in Tasks :
    WaitingForConfirmation(t) =>
      /\ t \notin registerMutex \cup deletionMutex
      /\ \A s \in Commands \ {t} :
           /\ pc[s] = "idle" =>
                /\ ENABLED RegisterCall(s, 103)
                /\ \A u \in userStore : ENABLED DeleteCall(s, u)
                /\ ENABLED TransferCall(s, call[t].user, call[t].user, TokenAmount(5, ALPH), FALSE)
                /\ ENABLED WithdrawCall(s, call[t].user, TokenAmount(2001, ALPH), MixDestination, FALSE)
           /\ (pc[s] = "r_wait" /\ ~\E h \in Tasks : InRegisterSection(h))
                => ENABLED RegisterAcquire(s)
           /\ (pc[s] = "d_wait" /\ ~\E h \in Tasks : pc[h] = "d_held")
                => ENABLED DeleteExclusive(s)
           /\ pc[s] = "t_submit" => ENABLED TransferSubmit(s)
           /\ pc[s] = "w_submit" => ENABLED WithdrawSubmit(s)

\* While one transfer waits for its confirmation, a withdrawal of the same
\* user has been submitted and a registration is inside its exclusive section.
C14_Witness ==
  \E t, s, r \in Tasks :
    /\ pc[t] = "t_wait"
    /\ pc[s] = "w_wait" /\ call[s].user = call[t].user
    /\ Len(TransferSubmissions(s)) = 1
    /\ pc[r] = "r_insert" /\ r \in registerMutex

\* ------------------------------------------------------------------ claims: the two stages of a sweep-all
SweepApis == {"postTransactionsSweepAddressBuild", "signAndSubmitUnsignedTx"}

\* Before position i of the task's log the fee transaction was confirmed at
\* the between-steps threshold.
FeeConfirmedBefore(t, i) ==
  \E j \in 1..(i - 1) :
    /\ log[t][j].api = "waitForTxConfirmation" /\ log[t][j].ok
    /\ log[t][j].confirmations = config.nbConfirmationsBetweenMultipleStepsTransactions
    /\ Len(TransferSubmissions(t)) = 1
    /\ log[t][j].txId = TransferSubmissions(t)[1].txId

FeeConfirmed(t) == FeeConfirmedBefore(t, Len(log[t]) + 1)

\* C15: with fees configured, the status advances to the second step only
\* after the fee transaction was confirmed at the between-steps threshold; no
\* sweep is built or submitted before the confirmation nor, with a status
\* tracker, before the advance; and when the fee stage has not succeeded the
\* status has not advanced and no sweep was built or submitted.
C15_AdvanceAfterFeeConfirmed ==
  \A t \in Tasks :
    (call[t].op = "takeFeesAndSweepWalletFromUserTo" /\ config.fees > 0)
      => /\ \A i \in 1..Len(log[t]) :
              /\ log[t][i].api = "txStatus.nextStep" => FeeConfirmedBefore(t, i)
              /\ log[t][i].api \in SweepApis
                   => /\ FeeConfirmedBefore(t, i)
                      /\ call[t].hasStatus
                           => \E j \in 1..(i - 1) : log[t][j].api = "txStatus.nextStep"
         /\ (Settled(t) /\ ~FeeConfirmed(t))
              => /\ outcome[t].status = "rejected"
                 /\ \A i \in 1..Len(log[t]) :
                      log[t][i].api \notin SweepApis \cup {"txStatus.nextStep"}

C15_Witness ==
  \E t \in Tasks :
    /\ call[t].op = "takeFeesAndSweepWalletFromUserTo" /\ config.fees > 0
    /\ call[t].hasStatus
    /\ \E i, j \in 1..Len(log[t]) :
         /\ i < j
         /\ log[t][i].api = "txStatus.nextStep"
         /\ log[t][j].api = "signAndSubmitUnsignedTx" /\ log[t][j].ok

\* The last gateway call of the task failed, and it belongs to the sweep stage.
SweepStageFailed(t) ==
  /\ Settled(t)
  /\ \E i \in 1..Len(log[t]) :
       /\ ~log[t][i].ok
       /\ \/ log[t][i].api \in SweepApis
          \/ /\ log[t][i].api = "waitForTxConfirmation" /\ FeeConfirmedBefore(t, i)

\* C16: when the sweep stage fails after the fee transaction was confirmed,
\* the call rejects and what it has submitted is the fee transaction followed
\* by the sweep transactions the node accepted, all to the destination:
\* nothing is sent to undo the fee.
C16_FeeNotUndone ==
  \A t \in Tasks :
    (/\ call[t].op = "takeFeesAndSweepWalletFromUserTo" /\ config.fees > 0
     /\ FeeConfirmed(t) /\ SweepStageFailed(t))
      => /\ outcome[t].status = "rejected"
         /\ Len(Submissions(t)) >= 1
         /\ Submissions(t)[1] = TransferSubmissions(t)[1]
         /\ IsFeeTransaction(Submissions(t)[1], t,
              SelectSeq(call[t].nodeBalance.tokenBalances, LAMBDA tb : registryRecognises(tb.id)))
         /\ \A i \in 2..Len(Submissions(t)) :
              /\ Submissions(t)[i].api = "signAndSubmitUnsignedTx"
              /\ Submissions(t)[i].toAddress = call[t].dest

\* The sweep built two transactions, the node accepted one and refused the other.
C16_Witness ==
  \E t \in Tasks :
    /\ call[t].op = "takeFeesAndSweepWalletFromUserTo" /\ config.fees > 0
    /\ FeeConfirmed(t) /\ SweepStageFailed(t)
    /\ outcome[t].status = "rejected"
    /\ Len(Submissions(t)) = 2
    /\ call[t].unsignedTxs = 2

\* The position of the successful sweep build in the task's log, 0 if none.
SweepBuiltAt(t) ==
  IF \E i \in 1..Len(log[t]) : log[t][i].api = "postTransactionsSweepAddressBuild" /\ log[t][i].ok
    THEN CHOOSE i \in 1..Len(log[t]) :
           log[t][i].api = "postTransactionsSweepAddressBuild" /\ log[t][i].ok
    ELSE 0

SweepSubmissions(t) ==
  SelectSeq(log[t], LAMBDA e : e.ok /\ e.api = "signAndSubmitUnsignedTx")

WaitsAfterBuild(t) ==
  SelectSeq(SubSeq(log[t], SweepBuiltAt(t) + 1, Len(log[t])),
            LAMBDA e : e.api = "waitForTxConfirmation")

\* C17: in the sweep stage of a sweep-all, a build that yields no transaction
\* makes the call resolve with the empty id without any confirmation wait; a
\* build that yields some makes it submit them all, wait for the first id
\* only, at the external-transfer threshold, and resolve with that id.
C17_SweepStageWait ==
  \A t \in Tasks :
    (call[t].op = "takeFeesAndSweepWalletFromUserTo" /\ SweepBuiltAt(t) > 0)
      => /\ call[t].unsignedTxs = 0
              => /\ pc[t] = "sw_submit" \/ outcome[t] = Resolved(NewUser(0), 0)
                 /\ WaitsAfterBuild(t) = <<>>
         /\ (call[t].unsignedTxs > 0 /\ outcome[t].status = "resolved")
              => /\ Len(SweepSubmissions(t)) = call[t].unsignedTxs
                 /\ WaitsAfterBuild(t) =
                      <<[LogEntry("waitForTxConfirmation", TRUE) EXCEPT
                           !.txId = SweepSubmissions(t)[1].txId,
                           !.confirmations = config.nbConfirmationsExternalTransfer]>>
                 /\ outcome[t] = Resolved(NewUser(0), SweepSubmissions(t)[1].txId)
         /\ \A i \in 1..Len(WaitsAfterBuild(t)) :
              /\ i = 1
              /\ Len(SweepSubmissions(t)) = call[t].unsignedTxs
              /\ WaitsAfterBuild(t)[i].txId = SweepSubmissions(t)[1].txId

\* Two transactions were swept and the call resolved.
C17_Witness ==
  \E t \in Tasks :
    /\ call[t].op = "takeFeesAndSweepWalletFromUserTo"
    /\ call[t].unsignedTxs = 2
    /\ Len(SweepSubmissions(t)) = 2
    /\ outcome[t] = Resolved(NewUser(0), SweepSubmissions(t)[1].txId)

\* ------------------------------------------------------------------ claims: the order of a transfer
\* The log of a transfer whose submission was accepted with id txId: the
\* submission, then the report of the pending id when there is a status sink
\* and the network is not the development one.
SubmittedLog(t, txId) ==
  <<[LogEntry("signAndSubmitTransferTx", TRUE) EXCEPT
       !.txId = txId, !.destinations = <<destination(call[t].receiver.address, call[t].requested)>>]>>
    \o (IF call[t].hasStatus /\ ~config.onDevNet
          THEN <<[LogEntry("txStatus.setTransactionId", TRUE) EXCEPT !.txId = txId]>>
          ELSE <<>>)

ConfirmedLog(t, txId) ==
  Append(SubmittedLog(t, txId),
         [LogEntry("waitForTxConfirmation", TRUE) EXCEPT
            !.txId = txId, !.confirmations = config.nbConfirmationsInternalTransfer])

\* C18: one transfer submits, reports the pending id (only after an accepted
\* submission, only with a status sink, never on the development network),
\* waits at the internal-transfer threshold, then starts the consolidation
\* checks of the sender and of a distinct receiver and resolves with the id;
\* a failed submission or wait starts no consolidation check.
C18_TransferOrder ==
  \A t \in Tasks :
    call[t].op = "transferFromUserToUser" =>
      /\ pc[t] = "t_submit" => log[t] = <<>> /\ Detached = {}
      /\ pc[t] = "t_wait" =>
           /\ log[t] = SubmittedLog(t, call[t].newTx)
           /\ call[t].newTx > 0 /\ outcome[t] = Pending /\ Detached = {}
      /\ Settled(t) =>
           \/ /\ log[t] = <<LogEntry("signAndSubmitTransferTx", FALSE)>>
              /\ outcome[t].status = "rejected" /\ Detached = {}
           \/ /\ log[t] = Append(SubmittedLog(t, call[t].newTx),
                   [LogEntry("waitForTxConfirmation", FALSE) EXCEPT !.txId = call[t].newTx])
              /\ outcome[t].status = "rejected" /\ Detached = {}
           \/ /\ log[t] = ConfirmedLog(t, call[t].newTx)
              /\ outcome[t] = Resolved(NewUser(0), call[t].newTx)
              /\ {call[s].user : s \in Detached} = {call[t].user, call[t].receiver}
              /\ Cardinality(Detached) = Cardinality({call[t].user, call[t].receiver})

\* A transfer between two users, with a status sink, has resolved.
C18_Witness ==
  \E t \in Tasks :
    /\ call[t].op = "transferFromUserToUser"
    /\ call[t].hasStatus /\ ~config.onDevNet
    /\ call[t].user # call[t].receiver
    /\ Len(log[t]) = 3
    /\ outcome[t] = Resolved(NewUser(0), call[t].newTx)
    /\ Cardinality(Detached) = 2

\* ------------------------------------------------------------------ claims: /forgetme
\* The command's sweep of its user's wallet resolved: the build and every
\* submission in the task's log were accepted.
EmptiedBefore(t) ==
  /\ call[t].wallet = getUserWallet(call[t].user)
  /\ \E i \in 1..Len(log[t]) :
       log[t][i].api = "postTransactionsSweepAddressBuild" /\ log[t][i].ok
  /\ \A i \in 1..Len(log[t]) : log[t][i].ok

\* The store holds the record with the user's primary key.
Stored(user) == \E u \in userStore : u.id = user.id

\* The command has invoked deleteUser.
DeleteInvoked(t) == call[t].op = "deleteUser" \/ \E r \in removing : r.task = t

\* C19: in the /forgetme flow deleteUser is invoked for a user only after
\* emptyWalletForDeletion for that same user has resolved; if it rejects,
\* deleteUser is not invoked and the user's record stays in the store.
C19_DeleteOnlyAfterEmptied ==
  \A t \in Tasks :
    call[t].command = "forgetme" =>
      /\ DeleteInvoked(t) => EmptiedBefore(t)
      /\ (call[t].op = "emptyWalletForDeletion" /\ outcome[t].status = "rejected") =>
           /\ ~DeleteInvoked(t)
           /\ ~ENABLED ForgetmeDelete(t)
           /\ Stored(call[t].user)
           /\ call[t].user.telegramId \notin removedIds

\* The wallet was swept in two transactions and the record is gone.
C19_Witness ==
  \E t \in Tasks :
    /\ call[t].command = "forgetme" /\ call[t].ended = "deleted"
    /\ Len(Submissions(t)) = 2
    /\ ~Stored(call[t].user)
    /\ call[t].user.telegramId \in removedIds

\* ------------------------------------------------------------------ claims: callers of registerUser
\* The handler's registerUser rejected with USER_ALREADY_REGISTERED and the
\* handler has dealt with the rejection.
AlreadyRegisteredHandled(t) ==
  /\ call[t].op = "registerUser"
  /\ call[t].command \in {"start", "tip", "middleware"}
  /\ outcome[t].status = "rejected"
  /\ outcome[t].error = USER_ALREADY_REGISTERED
  /\ call[t].ended # ""

\* C20: when registerUser rejects with AlreadyRegistered, the command that
\* called it fetches the existing record of that identity and continues with
\* it, whichever handler called it and also when the rejection comes from a
\* concurrent registration of the same identity.
C20_CallerRecovers ==
  \A t \in Tasks :
    AlreadyRegisteredHandled(t) =>
      /\ call[t].ended = "continued"
      /\ call[t].fetched # {}
      /\ \A u \in call[t].fetched : u.telegramId = call[t].user.telegramId

\* ------------------------------------------------------------------ claims: registering twice
\* C21: a registerUser call for an identity that already has a record rejects
\* with AlreadyRegistered and leaves the store as it was: the step that finds
\* the record changes neither the records nor the next primary key, and a
\* call issued while the record was there (no record of the identity having
\* been removed since) never settles otherwise.
C21_SecondRegistrationRejected ==
  /\ [](\A t \in Tasks :
          (/\ call[t].op = "registerUser" /\ pc[t] = "done"
           /\ ~call[t].absentAtCall
           /\ call[t].user.telegramId \notin removedIds)
          => /\ outcome[t] = Rejected(USER_ALREADY_REGISTERED)
             /\ call[t].user.id = 0)
  /\ [][\A t \in Tasks :
          (/\ pc[t] = "r_exists" /\ pc'[t] # "r_exists"
           /\ existsBy(userStore, call[t].user.telegramId))
          => /\ pc'[t] = "done"
             /\ outcome'[t] = Rejected(USER_ALREADY_REGISTERED)
             /\ userStore' = userStore
             /\ nextId' = nextId]_vars

\* A second call for a registered identity has been rejected; the record of
\* the first is there with its id and its derived address.
C21_Witness ==
  \E t \in Tasks : \E u \in userStore :
    /\ call[t].op = "registerUser" /\ pc[t] = "done"
    /\ ~call[t].absentAtCall
    /\ outcome[t] = Rejected(USER_ALREADY_REGISTERED)
    /\ u.telegramId = call[t].user.telegramId
    /\ u.address = deriveUserAddress(u)
    /\ Cardinality({v \in userStore : v.telegramId = u.telegramId}) = 1

\* ------------------------------------------------------------------ claims: one wallet per user
\* The record is between the two saves of a registerUser call.
BeingRegistered(u) ==
  \E t \in Tasks : pc[t] = "r_saveAddr" /\ call[t].user.id = u.id

\* C22: whatever registrations have run, concurrent ones included, two
\* distinct persisted users have distinct derivation indexes and distinct
\* addresses, and the address of each user whose registration has finished is
\* the one derived from the user's own persisted id.
C22_DistinctWallets ==
  /\ \A u, v \in userStore :
       u # v => /\ u.id # v.id
                /\ (~BeingRegistered(u) /\ ~BeingRegistered(v)) => u.address # v.address
  /\ \A u \in userStore :
       ~BeingRegistered(u) => /\ u.id >= 1
                              /\ u.address = WalletAddressOf(u.id)

\* Two calls for different identities, each issued before its identity had a
\* record, have both resolved and both records are in the store.
C22_Witness ==
  \E t1, t2 \in Tasks :
    /\ t1 # t2
    /\ call[t1].op = "registerUser" /\ call[t2].op = "registerUser"
    /\ call[t1].absentAtCall /\ call[t2].absentAtCall
    /\ call[t1].user.telegramId # call[t2].user.telegramId
    /\ outcome[t1].status = "resolved" /\ outcome[t2].status = "resolved"
    /\ outcome[t1].user \in userStore /\ outcome[t2].user \in userStore
    /\ removedIds = {}

\* ------------------------------------------------------------------ claims: shape of a balance
BalanceOps == {"getUserBalance", "getTotalTokenAmount", "getTotalTokenAmountFromAddresses"}

\* The entries of a balance for one asset id.
EntriesOf(balance, tokenId) == SelectSeq(balance, LAMBDA ta : ta.token.id = tokenId)

\* C23: every balance the aggregator returns holds at most one entry per
\* asset and exactly one entry for the native asset, whatever the filter and
\* also for an empty user set or address list.
C23_NativeAlwaysPresent ==
  \A t \in Tasks :
    (call[t].op \in BalanceOps /\ outcome[t].status = "resolved")
      => /\ Len(EntriesOf(outcome[t].balance, ALPH.id)) = 1
         /\ \A i \in 1..Len(outcome[t].balance) :
              Len(EntriesOf(outcome[t].balance, outcome[t].balance[i].token.id)) = 1

\* ------------------------------------------------------------------ claims: consolidation
\* The consolidation has read the address's balance.
BalanceRead(t) ==
  \E i \in 1..Len(log[t]) : log[t][i].api = "getAddressesAddressBalance" /\ log[t][i].ok

\* C24: consolidateIfRequired submits nothing when the UTXO count is strictly
\* below the threshold; at or above it the sweep is built, and everything it
\* builds and submits is a sweep to the user's own address; it never waits
\* for a confirmation and settles with the submissions.
C24_ConsolidateToSelf ==
  \A t \in Tasks :
    (call[t].op = "consolidateIfRequired" /\ BalanceRead(t)) =>
      LET below == call[t].nodeBalance.utxoNum < config.nbUTXOBeforeConsolidation
          own == getUserWallet(call[t].user).address IN
      /\ below => /\ \A i \in 1..Len(log[t]) : log[t][i].api = "getAddressesAddressBalance"
                  /\ pc[t] = "done" /\ outcome[t] = ResolvedTxIds(<<>>)
      /\ ~below => \/ pc[t] = "sw_build"
                   \/ \E i \in 1..Len(log[t]) :
                        log[t][i].api = "postTransactionsSweepAddressBuild"
      /\ \A i \in 1..Len(log[t]) :
           /\ log[t][i].api \in {"getAddressesAddressBalance",
                                 "postTransactionsSweepAddressBuild", "signAndSubmitUnsignedTx"}
           /\ log[t][i].api # "getAddressesAddressBalance" => log[t][i].toAddress = own
      /\ pc[t] \in {"sw_build", "sw_submit", "done"}
      /\ (pc[t] = "done" /\ outcome[t].status = "resolved")
           => outcome[t].txIds = TxIdsOf(SweepSubmissions(t))

\* An address at the threshold was swept to itself in two transactions.
C24_Witness ==
  \E t \in Tasks :
    /\ call[t].op = "consolidateIfRequired" /\ BalanceRead(t)
    /\ call[t].nodeBalance.utxoNum = config.nbUTXOBeforeConsolidation
    /\ pc[t] = "done" /\ outcome[t].status = "resolved"
    /\ Len(outcome[t].txIds) = 2
    /\ \A i \in 1..Len(Submissions(t)) :
         Submissions(t)[i].toAddress = getUserWallet(call[t].user).address

\* ------------------------------------------------------------------ claims: outputs of a withdrawal
\* The output carries `amount` of `token`: as native amount with no token
\* entry, or as one token entry next to the dust amount.
CarriesAs(d, amount, token) ==
  IF isALPH(token)
    THEN d.attoAlphAmount = amount /\ d.tokens = <<>>
    ELSE /\ d.attoAlphAmount = DUST_AMOUNT
         /\ d.tokens = <<[id |-> token.id, amount |-> amount]>>

\* C25: the transaction sendAmountToAddressFrom builds has two outputs when
\* the fee percentage is above zero, the fee address of the sender wallet's
\* group first and the destination second, and one output, the destination,
\* when it is zero; an output carries its amount as native asset with no
\* token entry, or as the dust amount plus one token entry.
C25_WithdrawalOutputs ==
  \A t \in Tasks :
    (call[t].op = "sendAmountToAddressFrom" /\ call[t].destinations # <<>>) =>
      LET d == call[t].destinations
          requested == call[t].requested
          fee == FloorPercent(requested.amount, config.fees) IN
      /\ IF config.fees > 0
           THEN /\ Len(d) = 2
                /\ d[1].address = addressesByGroup(getUserWallet(call[t].user).group)
                /\ d[2].address = call[t].dest
                /\ CarriesAs(d[1], fee, requested.token)
                /\ CarriesAs(d[2], requested.amount - fee, requested.token)
           ELSE /\ Len(d) = 1
                /\ d[1].address = call[t].dest
                /\ CarriesAs(d[1], requested.amount, requested.token)
      /\ \A i \in 1..Len(log[t]) :
           (log[t][i].api = "signAndSubmitTransferTx" /\ log[t][i].ok)
             => log[t][i].destinations = d

\* A token withdrawal with fees configured was submitted with its two outputs.
C25_Witness ==
  \E t \in Tasks :
    /\ call[t].op = "sendAmountToAddressFrom"
    /\ config.fees > 0
    /\ ~isALPH(call[t].requested.token)
    /\ Len(TransferSubmissions(t)) = 1
    /\ Len(TransferSubmissions(t)[1].destinations) = 2
    /\ TransferSubmissions(t)[1].destinations[1].attoAlphAmount = DUST_AMOUNT

\* ------------------------------------------------------------------ claims: precedence of the classifier
\* The documented order of the patterns.
PatternOrder ==
  <<"fetch failed", "IOFailure", "AmountOverflow", "NotEnoughFunds",
    "NotEnoughBalanceForFee", "NotEnoughApprovedBalance",
    "NotEnoughALPHForTransactionOutput", "NotEnoughALPHForALPHAndTokenChangeOutput",
    "NotEnoughALPHForTokenChangeOutput">>

MatchedPatterns(message) ==
  {i \in 1..Len(PatternOrder) : PatternOrder[i] \in ShapesOf(message)}

\* The pattern of a message that comes first in the order.
FirstMatch(message) == PatternOrder[MinOf(MatchedPatterns(message))]

\* A gateway failure of an operation whose catch classifies it.
Classified(t) ==
  /\ Settled(t)
  /\ call[t].op \in {"transferFromUserToUser", "sendAmountToAddressFrom",
                     "takeFeesAndSweepWalletFromUserTo", "emptyWalletForDeletion",
                     "consolidateIfRequired"}
  /\ call[t].failedAt \in {"submit", "sweepBuild", "sweepSubmit"}
  /\ call[t].raw.instanceOfError

RecognisedHoldings(nodeBalance) ==
  LET held == SelectSeq(nodeBalance.tokenBalances, LAMBDA tb : tb.id \in {TOK.id, TOK2.id}) IN
  <<TokenAmount(nodeBalance.balance, ALPH)>>
    \o [i \in 1..Len(held) |->
          TokenAmount(held[i].amount, CHOOSE tk \in {TOK, TOK2} : tk.id = held[i].id)]

\* C27: getUserBalance returns the native entry first, then one entry for
\* each held asset id the registry recognises, in the node's order; an id
\* the registry rejects is left out and the call still resolves; with a
\* token given, only the entries of that token are returned.
C27_UserBalanceEntries ==
  \A t \in Tasks :
    (call[t].op = "getUserBalance" /\ Settled(t) /\ BalanceRead(t)) =>
      /\ outcome[t].status = "resolved"
      /\ outcome[t].balance =
           IF call[t].tokenFilter = "" THEN RecognisedHoldings(call[t].nodeBalance)
           ELSE SelectSeq(RecognisedHoldings(call[t].nodeBalance),
                          LAMBDA ta : ta.token.id = call[t].tokenFilter)

\* The node reported tok2, an unknown id and tok1: the result is ALPH, TK2, TOK.
C27_Witness ==
  \E t \in Tasks :
    /\ call[t].op = "getUserBalance" /\ call[t].tokenFilter = ""
    /\ outcome[t].status = "resolved"
    /\ Len(call[t].nodeBalance.tokenBalances) = 3
    /\ Len(outcome[t].balance) = 3
    /\ outcome[t].balance[2].token = TOK2

\* ------------------------------------------------------------------ claims: waits without deadline
ConfirmedOps ==
  {"transferFromUserToUser", "sendAmountToAddressFrom", "takeFeesAndSweepWalletFromUserTo"}

\* C28: a confirmation wait has no deadline: the call stays unsettled in its
\* wait until waitForTxConfirmation itself returns for the transaction, and
\* nothing else ends the wait; and with a node that answers every call and
\* confirms every transaction, each transfer, withdrawal and fee-then-sweep
\* call eventually resolves or rejects.
C28_NoDeadline ==
  /\ [](\A t \in Tasks : WaitingForConfirmation(t) => outcome[t].status = "pending")
  /\ [][\A t \in Tasks :
          (WaitingForConfirmation(t) /\ pc'[t] # pc[t])
            => /\ Len(log'[t]) > Len(log[t])
               /\ log'[t][Len(log[t]) + 1].api = "waitForTxConfirmation"
               /\ log'[t][Len(log[t]) + 1].txId = call[t].newTx]_vars
  /\ \A t \in Tasks :
       (call[t].op \in ConfirmedOps /\ pc[t] # "done")
         ~> (pc[t] = "done" /\ outcome[t].status \in {"resolved", "rejected"})

\* The fee transaction was confirmed and the call now waits for the sweep.
C28_Witness ==
  \E t \in Tasks :
    /\ pc[t] = "s_wait" /\ outcome[t].status = "pending"
    /\ FeeConfirmed(t)

\* ------------------------------------------------------------------ claims: the batches of the total
\* The batch queries the call has issued.
BatchQueries(t) == SelectSeq(log[t], LAMBDA e : e.api = "userStore.find")

\* C29: for every user count n, getTotalTokenAmount uses a window of
\* ceil(n/10), at least 1 when n >= 1, issues at most 10 batch queries and
\* terminates (the loop index advances by the window with each batch and the
\* loop is left once it reaches n); for n = 0 it issues no query and returns
\* the empty balance.
C29_BoundedBatches ==
  \A t \in Tasks :
    (call[t].op = "getTotalTokenAmount" /\ pc[t] # "g_count") =>
      LET n == call[t].totalNbrUsers
          window == call[t].userBuffer
          batches == Len(BatchQueries(t))
          completed == IF pc[t] = "g_balances" THEN batches - 1 ELSE batches IN
      /\ n = Cardinality(userStore)
      /\ window * 10 >= n /\ (window - 1) * 10 < n
      /\ n >= 1 => window >= 1
      /\ batches <= 10
      /\ call[t].failedAt = "none" => call[t].i = window * completed
      /\ pc[t] \in {"g_find", "g_balances"} => call[t].i < n
      /\ (pc[t] = "done" /\ call[t].failedAt = "none") => call[t].i >= n
      /\ n = 0 => /\ log[t] = <<>>
                  /\ pc[t] = "done"
                  /\ outcome[t] = ResolvedBalance(<<>>)

\* Ten users are read in ten batches of one; the call has resolved.
C29_Witness ==
  \E t \in Tasks :
    /\ call[t].op = "getTotalTokenAmount"
    /\ call[t].totalNbrUsers = 10 /\ call[t].userBuffer = 1
    /\ Len(BatchQueries(t)) = 10
    /\ pc[t] = "done" /\ outcome[t].status = "resolved"

\* ------------------------------------------------------------------ claims: records without address
\* C30: whenever no registerUser call holds the registration lock, every
\* record of the store has its derived address; a call that rejected, for
\* AlreadyRegistered or because a store call failed, has left no record
\* without address and no record of its own in the store.
C30_NoHalfRegisteredRecord ==
  registerMutex = {} =>
    /\ \A u \in userStore : u.address = WalletAddressOf(u.id)
    /\ \A t \in Tasks :
         (call[t].op = "registerUser" /\ outcome[t].status = "rejected")
           => ~\E u \in userStore : u.id # 0 /\ u.id = call[t].user.id
\* ------------------------------------------------------------------ claims: release of the registration lock
\* C31: registerMutex is held only by a registerUser call inside its callback:
\* a call that settled, by resolving, by rejecting with AlreadyRegistered or by
\* a failed persistence call, no longer holds it. With persistence calls that
\* return, every registerUser call waiting for the lock enters its critical
\* section and settles.
C31_LockReleasedOnSettle ==
  /\ [](\A t \in Tasks : t \in registerMutex => InRegisterSection(t))
  /\ [](\A t \in Tasks : (Settled(t) /\ call[t].op = "registerUser")
                             => (t \notin registerMutex /\ outcome[t].status # "pending"))
  /\ \A t \in Tasks : (pc[t] = "r_wait") ~> InRegisterSection(t)
  /\ \A t \in Tasks : (pc[t] = "r_wait") ~> (Settled(t) /\ outcome[t].status # "pending")

\* A call failed in its second save, a later call got the lock and resolved,
\* and a third was rejected with AlreadyRegistered; the lock is free.
C31_Witness ==
  \E t, u, v \in Tasks :
    /\ call[t].op = "registerUser" /\ Settled(t) /\ call[t].failedAt = "r_saveAddr"
    /\ call[v].op = "registerUser" /\ Settled(v) /\ outcome[v].status = "resolved"
    /\ outcome[v].user.id > call[t].user.id
    /\ call[u].op = "registerUser" /\ Settled(u)
    /\ outcome[u].error = USER_ALREADY_REGISTERED
    /\ registerMutex = {}
\* ------------------------------------------------------------------ claims: consolidation checks of a transfer
\* The users a transfer involves, each once.
Involved(t) == {call[t].user, call[t].receiver}

\* The background consolidation checks that were started for a user.
ChecksFor(user) == {s \in Detached : call[s].user.id = user.id}

\* C37: a transfer that did not reach a confirmed wait has started no
\* consolidation check; after the confirmed wait exactly one check has been
\* started for each distinct user involved, one for the sender and one for the
\* receiver when they differ and a single one when they are the same user, so
\* no two checks started by the transfer work on the same wallet.
C37_OneCheckPerUser ==
  \A t \in Tasks :
    call[t].op = "transferFromUserToUser" =>
      IF ConfirmedWait(t)
        THEN /\ \A user \in Involved(t) : Cardinality(ChecksFor(user)) = 1
             /\ Cardinality(Detached) = Cardinality({user.id : user \in Involved(t)})
             /\ \A s \in Detached : call[s].user \in Involved(t)
             /\ \A r, s \in Detached : call[r].wallet = call[s].wallet => r = s
        ELSE Detached = {}

\* A user has tipped themselves: the transfer is confirmed and one check runs.
C37_Witness ==
  \E t \in Tasks :
    /\ call[t].op = "transferFromUserToUser" /\ ConfirmedWait(t)
    /\ call[t].user = call[t].receiver
    /\ Cardinality(Detached) = 1
    /\ \E s \in Detached : call[s].user = call[t].user /\ pc[s] = "c_balance"
\* ------------------------------------------------------------------ claims: the self-registration middleware
\* C36: the bot's own record is created at most once, and an update whose
\* self-registration has settled goes on to next(): the registration it
\* awaited has resolved and the middleware was not left by a rejection.
C36_EveryUpdateContinues ==
  /\ Cardinality(getUserFromTgId(userStore, BotId)) <= 1
  /\ \A t \in Tasks :
       (call[t].command = "middleware" /\ Settled(t))
         => (outcome[t].status = "resolved" /\ call[t].ended # "threw")
\* ------------------------------------------------------------------ claims: terminal status update
\* The terminal updates a handler made to its TransactionStatus.
TerminalUpdates(t) ==
  SelectSeq(log[t], LAMBDA e : e.api \in {"txStatus.setConfirmed", "txStatus.setFailed"})

\* C35: a transfer of the tip command or a withdrawal of the withdraw command
\* gets at most one terminal status update, and once the handler has dealt
\* with the settled call exactly one: confirmed when the call resolved,
\* failed when it rejected, whatever the error kind.
C35_OneTerminalUpdate ==
  \A t \in Tasks :
    (/\ call[t].op \in {"transferFromUserToUser", "sendAmountToAddressFrom",
                         "takeFeesAndSweepWalletFromUserTo"}
     /\ call[t].hasStatus)
      => /\ Len(TerminalUpdates(t)) <= 1
         /\ call[t].ended # "" =>
              /\ Len(TerminalUpdates(t)) = 1
              /\ TerminalUpdates(t)[1].api =
                   IF outcome[t].status = "resolved" THEN "txStatus.setConfirmed"
                   ELSE "txStatus.setFailed"
\* ------------------------------------------------------------------ claims: confirmation of /forgetme
\* The /forgetme handler has gone past the confirmation: it is removing the
\* intention, sweeping the wallet or deleting the record.
Proceeded(t) ==
  /\ call[t].command = "forgetme"
  /\ pc[t] = "f_remove" \/ call[t].op \in {"emptyWalletForDeletion", "deleteUser"}

\* An earlier /forgetme message of the same user registered the intention.
IntentionRegisteredBefore(t) ==
  \E s \in Tasks \ {t} :
    /\ call[s].command = "forgetme" /\ call[s].ended = "intentionRegistered"
    /\ \E u \in call[s].fetched : u.id = call[t].user.id

\* C34: a /forgetme handler goes on to the sweep and to deleteUser only when
\* its check found an intention recorded for the user, registered by an
\* earlier /forgetme message, and its message carries exactly the
\* confirmation string; a message with a wrong or missing string, handled
\* while an intention is recorded, removes the intention, makes no gateway
\* call and deletes nothing.
C34_DeleteNeedsConfirmation ==
  /\ [](\A t \in Tasks :
         /\ (Proceeded(t) \/ (call[t].command = "forgetme" /\ DeleteInvoked(t)))
              => /\ call[t].update.previouslyRegistered
                 /\ call[t].update.goodBye = "right"
                 /\ IntentionRegisteredBefore(t)
         /\ (call[t].command = "forgetme" /\ call[t].ended = "intentionRemoved")
              => /\ call[t].update.previouslyRegistered /\ call[t].update.goodBye # "right"
                 /\ call[t].op = "none" /\ log[t] = <<>> /\ ~DeleteInvoked(t))
  /\ [][\A t \in Tasks :
          (/\ pc[t] = "f_check" /\ pc'[t] # "f_check"
           /\ call[t].user.id \in leavingIntentions
           /\ call[t].update.goodBye # "right")
            => /\ call[t].user.id \notin leavingIntentions'
               /\ pc'[t] = "done" /\ call'[t].ended = "intentionRemoved"
               /\ UNCHANGED <<userStore, removing, log>>]_vars

\* One message registered the intention, one with a wrong string removed it,
\* and the one with the right string, whose check came before the removal,
\* has deleted the account.
C34_Witness ==
  \E r, s, t \in Tasks :
    /\ call[r].command = "forgetme" /\ call[r].ended = "intentionRegistered"
    /\ call[s].command = "forgetme" /\ call[s].ended = "intentionRemoved"
    /\ call[t].command = "forgetme" /\ call[t].ended = "deleted"
    /\ call[t].update.goodBye = "right"
    /\ ~Stored(call[t].user)

\* C33: for one user at most one /forgetme handler goes past the
\* confirmation to emptyWalletForDeletion and deleteUser.
C33_OneConfirmationProceeds ==
  \A s, t \in Tasks :
    (Proceeded(s) /\ Proceeded(t) /\ call[s].user.id = call[t].user.id) => s = t

\* ------------------------------------------------------------------ claims: tips to a leaving user
\* The /forgetme flow of the user has swept their wallet.
SweptFor(t, user) ==
  /\ call[t].command = "forgetme"
  /\ call[t].user.id = user.id
  /\ \/ call[t].op = "emptyWalletForDeletion" /\ outcome[t].status = "resolved"
     \/ call[t].op = "deleteUser"

\* C32: no transfer to a user is submitted once the /forgetme flow has swept
\* that user's wallet, also when the receiver was looked up before.
C32_NoTransferAfterSweep ==
  [][\A s \in Tasks :
       (/\ call[s].op = "transferFromUserToUser"
        /\ pc[s] = "t_submit" /\ pc'[s] = "t_wait")
         => ~\E t \in Tasks : SweptFor(t, call[s].receiver)]_vars
====
